---------------------------- MODULE Spec2Model ----------------------------
(***************************************************************************)
(* The virtual file system of the riptide kernel (kernel/src/fs/vfs.rs),   *)
(* with its directory cache, mount table and open-file table, over the     *)
(* RAM file system (drivers/fs/ram.rs) and the device directory            *)
(* (drivers/fs/dev.rs).                                                    *)
(*                                                                         *)
(* Objects behind an Arc are numbered by their allocation: a               *)
(* DirectoryEntry is the number `obj` of the allocation that made it, and  *)
(* carries the `id` field DirectoryEntryId::new() gave it.  An entry whose *)
(* last strong reference is gone leaves `entries`; a Weak that names it    *)
(* no longer upgrades.  An FsNode is named by (mount_id, id).              *)
(***************************************************************************)
EXTENDS Integers, Sequences, FiniteSets, TLC

VARIABLES
    table,        \* DirectoryCache.table : DirectoryCacheKey -> Weak<DirectoryEntry>
    entries,      \* the DirectoryEntry objects with a strong reference
    children,     \* DirectoryEntry.children : name -> Weak<DirectoryEntry>
    nextEntryId,  \* DirectoryEntryId::new::NEXT_ID
    idLog,        \* the id of every DirectoryEntry ever allocated, in order
    nodes,        \* the FsNode objects with a strong reference
    mount_table,  \* VirtualFileSystem.mount_table : MountId -> VfsMount
    nextMountId,  \* MountId::new::NEXT_ID
    files,        \* VirtualFileSystem.files : FileDescriptor -> File
    nextFd,       \* FileDescriptor::new::NEXT_ID
    held,         \* the entries a caller of stat still holds, each with the path it gave
    closed,       \* descriptors that a close has removed (history)
    created,      \* (directory node, name) -> node, for every driver create (history)
    panicked,     \* a todo!(), assert! or expect() stopped the kernel
    harness       \* the inputs and outputs of a driver function applied by itself

vars == << table, entries, children, nextEntryId, idLog, nodes, mount_table,
           nextMountId, files, nextFd, held, closed, created, panicked,
           harness >>

-----------------------------------------------------------------------------
(* Bounds of the model *)

MaxEntries == 4     \* DirectoryEntry allocations in one run
MaxMounts == 2      \* successful mounts in one run
MaxFds == 2         \* descriptors issued in one run
MaxNodeId == 2      \* FsNode ids handed out by one file system instance
MaxByte == 1        \* bytes are 0..MaxByte
MaxBuf == 1         \* length of a caller's buffer
MaxFileLen == 1     \* cursor of a descriptor and length of a RAM file in Spec
MaxData == 2        \* bytes in the data a driver function is applied to
MaxHeld == 1        \* entries a caller holds at one time

-----------------------------------------------------------------------------
(* Values *)

NoEntry == 0        \* Option::<Arc<DirectoryEntry>>::None
NullEntryId == 0    \* DirectoryEntryId::NULL
FirstEntryId == 1   \* NEXT_ID of DirectoryEntryId
FirstMountId == 0   \* NEXT_ID of MountId
FirstFd == 1        \* NEXT_ID of FileDescriptor
RootNodeId == 0     \* FsNodeId::ZERO
FirstNodeId == 1    \* next_node_id of a new file system instance
InitialLinkCount == 1  \* link_count of a new FsNode

NoNode == << >>

Names == {"d", "null"}
CharDevices == {"null", "zero"}     \* drivers::char::init
FsTypes == {"ramfs", "devfs"}       \* drivers::fs::init
Modes == {"Read", "Write"}
AllModes == {"Read", "Write", "Append"}  \* FileMode
Bytes == 0 .. MaxByte

EmptyMap == [x \in {} |-> 0]
Put(f, k, v) == [x \in (DOMAIN f) \cup {k} |-> IF x = k THEN v ELSE f[x]]
Restrict(f, D) == [x \in D \cap DOMAIN f |-> f[x]]
Range(f) == {f[x] : x \in DOMAIN f}
Min(a, b) == IF a < b THEN a ELSE b
Max(a, b) == IF a > b THEN a ELSE b
SeqsUpTo(S, n) == UNION {[1 .. k -> S] : k \in 0 .. n}

\* Parsed absolute paths (Path.segments): "/" and the segments after it.
Paths ==
    { <<"/">>, <<"/", "d">>, <<"/", "null">>, <<"/", "d", "d">>,
      <<"/", "d", "null">>, <<"/", "d", "..">>, <<"/", ".">> }

\* The entries with a strong reference in a caller's hands.
Held == DOMAIN held

\* The state of the VFS as one value, for the steps inside one call.
Cur ==
    [ table |-> table, entries |-> entries, children |-> children,
      nextEntryId |-> nextEntryId, idLog |-> idLog, nodes |-> nodes,
      mount_table |-> mount_table, nextMountId |-> nextMountId,
      files |-> files, nextFd |-> nextFd, created |-> created ]


-----------------------------------------------------------------------------
(* Arc and Weak *)

\* Weak::upgrade: the entry, when a strong reference to it is left.
Upgrade(S, w) == IF w \in DOMAIN S.entries THEN w ELSE NoEntry

\* An entry whose parent field does not keep the parent alive.
AncestorsOnlySelf(S, o) == IF o \in DOMAIN S.entries THEN {o} ELSE {}

\* The entry and the entries its parent links keep alive.
RECURSIVE Ancestors(_, _)
Ancestors(S, o) ==
    IF o = NoEntry \/ o \notin DOMAIN S.entries THEN {}
    ELSE {o} \cup Ancestors(S, S.entries[o].parent)

\* A mount record that holds no strong reference to its root entry.
MountRootsWeak(S) == {}

\* VfsMount.root: every mount record holds its root entry.
MountRoots(S) == {S.mount_table[m].root : m \in DOMAIN S.mount_table}

\* The drop of every strong reference but those in `pins` and those of the
\* mount records: an entry with no strong reference left is freed, and with
\* it its reference to its parent and to its node; an FsNode is freed when
\* no entry, no File and no driver holds it (a RAM file system holds its
\* nodes in its directories, the device directory holds none but its root).
Release(S, pins) ==
    LET live == UNION {Ancestors(S, o) : o \in pins \cup MountRoots(S)}
        ents == Restrict(S.entries, live)
        used == {ents[o].node : o \in DOMAIN ents}
                  \cup {S.files[fd].node : fd \in DOMAIN S.files}
        keep == {k \in DOMAIN S.nodes :
                    \/ k \in used
                    \/ k[2] = RootNodeId
                    \/ (k[1] \in DOMAIN S.mount_table
                          /\ S.mount_table[k[1]].fstype = "ramfs")}
    IN  [S EXCEPT !.entries = ents,
                  !.children = Restrict(S.children, live),
                  !.nodes = Restrict(S.nodes, keep)]

-----------------------------------------------------------------------------
(* DirectoryCache *)

DirectoryCacheKey(pid, name) == <<pid, name>>

\* A counter that hands out the same id again.
DirectoryEntryIdStuck(n) == n

\* DirectoryEntryId::new: fetch_add(1) on NEXT_ID.
DirectoryEntryIdNext(n) == n + 1

\* PartialEq for DirectoryEntry: two entries are equal when their ids are.
EntryEq(a, b) == a.id = b.id

\* A get_root that finds no root slot.
CacheGetRootNone(S) == NoEntry

\* DirectoryCache::get_root
CacheGetRoot(S) ==
    LET key == DirectoryCacheKey(NullEntryId, "/")
    IN  IF key \in DOMAIN S.table THEN Upgrade(S, S.table[key]) ELSE NoEntry

\* A lookup that never finds a slot.
CacheLookupMiss(S, parent, name) == NoEntry

\* DirectoryCache::lookup
CacheLookup(S, parent, name) ==
    LET key == DirectoryCacheKey(S.entries[parent].id, name)
    IN  IF key \in DOMAIN S.table THEN Upgrade(S, S.table[key]) ELSE NoEntry

\* DirectoryCache::insert.  res is "Panic" when one of its assertions fails.
CacheInsert(S, parent, node, name) ==
    IF parent = NoEntry /\ name # "/"
        THEN [st |-> S, res |-> "Panic", entry |-> NoEntry]
    ELSE IF parent # NoEntry /\ CacheLookup(S, parent, name) # NoEntry
        THEN [st |-> S, res |-> "Panic", entry |-> NoEntry]
    ELSE
        LET obj == Len(S.idLog) + 1
            id == S.nextEntryId
            e == [id |-> id, name |-> name, node |-> node, parent |-> parent]
            kids == IF parent = NoEntry THEN S.children
                    ELSE [S.children EXCEPT ![parent] = Put(@, name, obj)]
            key == DirectoryCacheKey(
                       IF parent = NoEntry THEN NullEntryId
                       ELSE S.entries[parent].id, name)
        IN  [st |-> [S EXCEPT !.nextEntryId = DirectoryEntryIdNext(id),
                              !.idLog = Append(@, id),
                              !.entries = Put(@, obj, e),
                              !.children = Put(kids, obj, EmptyMap),
                              !.table = Put(@, key, obj)],
             res |-> "Ok", entry |-> obj]

\* A prune_children whose retain keeps no child.
PruneChildrenNone(S, kids) == EmptyMap

\* DirectoryEntry::prune_children
PruneChildren(S, kids) ==
    Restrict(kids, {n \in DOMAIN kids : kids[n] \in DOMAIN S.entries})

\* A prune whose retain keeps no slot at all.
CachePruneAll(S) == [S EXCEPT !.table = EmptyMap]

\* DirectoryCache::prune
CachePrune(S) ==
    LET kept == {k \in DOMAIN S.table : S.table[k] \in DOMAIN S.entries}
    IN  [S EXCEPT !.table = Restrict(@, kept),
                  !.children = [o \in DOMAIN @ |->
                      IF o \in {S.table[k] : k \in kept}
                      THEN PruneChildren(S, @[o]) ELSE @[o]]]

-----------------------------------------------------------------------------
(* FsNode and the drivers' directory operations *)

\* A new FsNode as the drivers build it.
NewNode(kind, dev) ==
    [kind |-> kind, link_count |-> InitialLinkCount, children |-> EmptyMap,
     data |-> << >>, dev |-> dev]

\* An is_directory that is true of every node.
IsDirectoryAlways(S, o) == TRUE

\* FsNode::is_directory
IsDirectory(S, o) == S.nodes[S.entries[o].node].kind = "Directory"

\* FsNode::file_system: the type of the mount the node belongs to, "none"
\* when the mount table has no such mount (the expect() then panics).
FileSystemOf(S, node) ==
    IF node[1] \in DOMAIN S.mount_table
    THEN S.mount_table[node[1]].fstype ELSE "none"

\* RamFileSystem::lookup
RamLookup(S, dir, name) ==
    LET kids == S.nodes[dir].children
    IN  [st |-> S, res |-> "Ok",
         node |-> IF name \in DOMAIN kids THEN kids[name] ELSE NoNode]

\* DevFileSystem::lookup: a new CharDevice node for a registered device.
DevLookup(S, dir, name) ==
    LET m == dir[1]
        id == S.mount_table[m].next_node_id
    IN  IF name \notin CharDevices THEN [st |-> S, res |-> "Ok", node |-> NoNode]
        ELSE [st |-> [S EXCEPT !.mount_table[m].next_node_id = id + 1,
                               !.nodes = Put(@, <<m, id>>, NewNode("CharDevice", name))],
              res |-> "Ok", node |-> <<m, id>>]

\* DirectoryOperations::lookup of the file system that holds `dir`.
DriverLookup(S, dir, name) ==
    LET fs == FileSystemOf(S, dir)
    IN  IF fs = "ramfs" THEN RamLookup(S, dir, name)
        ELSE IF fs = "devfs" THEN DevLookup(S, dir, name)
        ELSE [st |-> S, res |-> "Panic", node |-> NoNode]

-----------------------------------------------------------------------------
(* The path walker *)

\* A lookup that stops at the cache and never asks the driver.
GetCachedOrLookupCacheOnly(S, parent, name) ==
    [st |-> S, res |-> "Ok", entry |-> CacheLookup(S, parent, name)]

\* VirtualFileSystem::get_cached_or_lookup
GetCachedOrLookup(S, parent, name) ==
    LET Looked(l) ==
            IF l.res # "Ok" THEN [st |-> l.st, res |-> l.res, entry |-> NoEntry]
            ELSE IF l.node = NoNode THEN [st |-> S, res |-> "Ok", entry |-> NoEntry]
            ELSE CacheInsert(l.st, parent, l.node, name)
        Cached(cached) ==
            IF cached # NoEntry THEN [st |-> S, res |-> "Ok", entry |-> cached]
            ELSE Looked(DriverLookup(S, S.entries[parent].node, name))
    IN  Cached(CacheLookup(S, parent, name))

\* The mount whose root is the child `name` of `top` (the first in the order
\* of the mount table), NoEntry when there is none.
MountRootAt(S, top, name) ==
    LET hit == {m \in DOMAIN S.mount_table :
                  LET r == S.entries[S.mount_table[m].root]
                  IN  /\ r.parent # NoEntry
                      /\ S.entries[r.parent].id = S.entries[top].id
                      /\ r.name = name}
    IN  IF hit = {} THEN NoEntry
        ELSE S.mount_table[CHOOSE m \in hit : \A x \in hit : m <= x].root

\* A pop that leaves the stack as it is.
StackPopNothing(stack) == stack

\* stack.pop_back(): the stack without its top.
StackPop(stack) == SubSeq(stack, 1, Len(stack) - 1)

\* The loop of VirtualFileSystem::resolve_path over the segments from the
\* i-th on.  res: "Ok" (entry), "None", "NotADirectory", "Panic".
RECURSIVE WalkSegments(_, _, _, _, _)
WalkSegments(S, pins, segs, i, stack) ==
    LET top == stack[Len(stack)]
        seg == segs[i]
        rest == StackPop(stack)
        Found(g) ==
            IF g.res # "Ok" THEN [st |-> g.st, res |-> g.res, entry |-> NoEntry]
            ELSE IF g.entry = NoEntry
                THEN [st |-> g.st, res |-> "None", entry |-> NoEntry]
            ELSE WalkSegments(g.st, pins, segs, i + 1, Append(stack, g.entry))
        Overlaid(mnt) ==
            IF mnt # NoEntry
                THEN WalkSegments(S, pins, segs, i + 1, Append(stack, mnt))
            ELSE Found(GetCachedOrLookup(S, top, seg))
    IN  IF i > Len(segs)
            THEN [st |-> S, res |-> "Ok", entry |-> top]
        ELSE IF ~IsDirectory(S, top)
            THEN [st |-> S, res |-> "NotADirectory", entry |-> NoEntry]
        ELSE IF seg = "."
            THEN WalkSegments(S, pins, segs, i + 1, stack)
        ELSE IF seg = ".."
            THEN IF Len(stack) = 1
                 THEN WalkSegments(S, pins, segs, i + 1, stack)
                 ELSE WalkSegments(Release(S, pins \cup Range(rest)),
                                   pins, segs, i + 1, rest)
        ELSE Overlaid(MountRootAt(S, top, seg))

\* VirtualFileSystem::resolve_path on a parsed absolute path.  The entries of
\* the stack are dropped on return; only the entry returned stays referenced.
ResolvePath(S, pins, segs) ==
    LET Walked(w) ==
            [st |-> Release(w.st, pins \cup {w.entry}),
             res |-> w.res, entry |-> w.entry]
        From(root) ==
            IF root = NoEntry
            THEN [st |-> S, res |-> "NoRootDirectory", entry |-> NoEntry]
            ELSE Walked(WalkSegments(S, pins, segs, 2, <<root>>))
    IN  From(CacheGetRoot(S))

\* The loop of VirtualFileSystem::resolve_path_parent_directory; i counts the
\* segments after the root from 0, as enumerate() does.
RECURSIVE WalkParent(_, _, _, _, _)
WalkParent(S, pins, segs, i, stack) ==
    LET count == Len(segs) - 1
        seg == segs[i + 2]
        none == [entry |-> NoEntry, name |-> ""]
        Found(g) ==
            IF g.res # "Ok" THEN [st |-> g.st, res |-> g.res] @@ none
            ELSE IF g.entry = NoEntry
                THEN [st |-> g.st, res |-> "EntryNotFound"] @@ none
            ELSE IF ~IsDirectory(g.st, g.entry)
                THEN [st |-> g.st, res |-> "NotADirectory"] @@ none
            ELSE WalkParent(g.st, pins, segs, i + 1, Append(stack, g.entry))
    IN  IF seg = "." \/ seg = ".."
            THEN [st |-> S, res |-> "Panic"] @@ none
        ELSE IF i # count - 1
            THEN Found(GetCachedOrLookup(S, stack[Len(stack)], seg))
        ELSE [st |-> S, res |-> "Ok", entry |-> stack[Len(stack)], name |-> seg]

\* VirtualFileSystem::resolve_path_parent_directory
ResolvePathParent(S, pins, segs) ==
    LET none == [entry |-> NoEntry, name |-> ""]
        Walked(w) ==
            [st |-> Release(w.st, pins \cup {w.entry}),
             res |-> w.res, entry |-> w.entry, name |-> w.name]
        From(root) ==
            IF root = NoEntry
                THEN [st |-> S, res |-> "NoRootDirectory"] @@ none
            ELSE IF Len(segs) - 1 = 0
                THEN [st |-> S, res |-> "InvalidPath"] @@ none
            ELSE Walked(WalkParent(S, pins, segs, 0, <<root>>))
    IN  From(CacheGetRoot(S))

-----------------------------------------------------------------------------
(* mount *)

\* FileSystemType::mount of ramfs and devfs: a new instance, whose root
\* directory node has id FsNodeId::ZERO, and MountId::new.
NewFileSystem(S, id) ==
    [S EXCEPT !.nextMountId = id + 1,
              !.nodes = Put(@, <<id, RootNodeId>>, NewNode("Directory", ""))]

\* The VfsMount put in the mount table at the end of mount.
RecordMount(S, id, root, kind) ==
    [S EXCEPT !.mount_table =
        Put(@, id, [root |-> root, fstype |-> kind, next_node_id |-> FirstNodeId])]

\* VirtualFileSystem::mount with source "" and Some(kind).
MountOp(S, pins, target, kind) ==
    LET Inserted(id, ins) ==
            IF ins.res # "Ok"
            THEN [st |-> ins.st, res |-> ins.res, val |-> NoEntry]
            ELSE [st |-> RecordMount(ins.st, id, ins.entry, kind),
                  res |-> "Ok", val |-> id]
        Under(T, parent, name) ==
            Inserted(T.nextMountId,
                     CacheInsert(NewFileSystem(T, T.nextMountId), parent,
                                 <<T.nextMountId, RootNodeId>>, name))
        Parent(pr) ==
            IF pr.res # "Ok"
            THEN [st |-> pr.st, res |-> pr.res, val |-> NoEntry]
            ELSE Under(pr.st, pr.entry, pr.name)
        Resolved(r) ==
            IF r.res = "Ok"
                THEN [st |-> r.st, res |-> "Panic", val |-> NoEntry]
            ELSE IF r.res # "None"
                THEN [st |-> r.st, res |-> r.res, val |-> NoEntry]
            ELSE Parent(ResolvePathParent(r.st, pins, target))
    IN  IF kind \notin FsTypes
            THEN [st |-> S, res |-> "FileSystemTypeNotFound", val |-> NoEntry]
        ELSE IF target = <<"/">>
            THEN IF CacheGetRoot(S) # NoEntry
                 THEN [st |-> S, res |-> "AlreadyExists", val |-> NoEntry]
                 ELSE Under(S, NoEntry, "/")
        ELSE Resolved(ResolvePath(S, pins, target))

-----------------------------------------------------------------------------
(* create_file and create_directory of the drivers *)

\* A creation that makes the node and leaves it out of the directory.
RamCreateUnlinked(S, dir, name, kind) ==
    LET m == dir[1]
        id == S.mount_table[m].next_node_id
    IN  [st |-> [S EXCEPT !.mount_table[m].next_node_id = id + 1,
                          !.nodes = Put(@, <<m, id>>, NewNode(kind, ""))],
         res |-> "Ok", node |-> <<m, id>>]

\* RamFileSystem::create_file and ::create_directory: a new node with the
\* next node id, put under `name` in the children of the directory.
RamCreate(S, dir, name, kind) ==
    LET m == dir[1]
        id == S.mount_table[m].next_node_id
    IN  [st |-> [S EXCEPT
                  !.mount_table[m].next_node_id = id + 1,
                  !.nodes = [Put(@, <<m, id>>, NewNode(kind, ""))
                               EXCEPT ![dir].children = Put(@, name, <<m, id>>)]],
         res |-> "Ok", node |-> <<m, id>>]

\* DirectoryOperations::create_file / create_directory of the file system
\* that holds `dir`; the device directory keeps the trait's default.
DriverCreate(S, dir, name, kind) ==
    LET fs == FileSystemOf(S, dir)
    IN  IF fs = "ramfs" THEN RamCreate(S, dir, name, kind)
        ELSE IF fs = "devfs"
            THEN [st |-> S, res |-> "OperationNotSupported", node |-> NoNode]
        ELSE [st |-> S, res |-> "Panic", node |-> NoNode]

\* The driver call and the cache insertion that create the child `name` of
\* the entry `parent` (open in a mutating mode, create_directory).
CreateChild(S, parent, name, kind) ==
    LET dir == S.entries[parent].node
        Created(c) ==
            IF c.res # "Ok" THEN [st |-> c.st, res |-> c.res, entry |-> NoEntry]
            ELSE CacheInsert([c.st EXCEPT !.created = Put(@, <<dir, name>>, c.node)],
                             parent, c.node, name)
    IN  Created(DriverCreate(S, dir, name, kind))

\* VirtualFileSystem::create_directory
CreateDirectoryOp(S, pins, path) ==
    LET Created(c) == [st |-> c.st, res |-> c.res, val |-> c.entry]
        Parent(pr) ==
            IF pr.res # "Ok"
            THEN [st |-> pr.st, res |-> pr.res, val |-> NoEntry]
            ELSE Created(CreateChild(pr.st, pr.entry, pr.name, "Directory"))
        Resolved(r) ==
            IF r.res = "Ok"
                THEN [st |-> r.st, res |-> "AlreadyExists", val |-> NoEntry]
            ELSE IF r.res # "None"
                THEN [st |-> r.st, res |-> r.res, val |-> NoEntry]
            ELSE Parent(ResolvePathParent(r.st, pins, path))
    IN  Resolved(ResolvePath(S, pins, path))

\* VirtualFileSystem::stat
StatOp(S, pins, path) ==
    LET Resolved(r) ==
            [st |-> r.st,
             res |-> IF r.res = "None" THEN "EntryNotFound" ELSE r.res,
             val |-> r.entry]
    IN  Resolved(ResolvePath(S, pins, path))

-----------------------------------------------------------------------------
(* open and close *)

\* An is_mutating that is false for every mode.
IsMutatingNever(mode) == FALSE

\* FileMode::is_mutating
IsMutating(mode) == mode \in {"Write", "Append"}

\* FsNode::increment_link_count / decrement_link_count
IncrementLinkCount(S, node) == [S EXCEPT !.nodes[node].link_count = @ + 1]
DecrementLinkCount(S, node) == [S EXCEPT !.nodes[node].link_count = @ - 1]

\* A guard whose block never runs.
DeferDropNever(S, node, canceled) == S

\* defer_handle!: when the guard leaves its scope, its block runs unless the
\* handle was cancelled.  The block of open decrements the link count.
DeferDrop(S, node, canceled) ==
    IF ~canceled THEN DecrementLinkCount(S, node) ELSE S

\* A counter that hands out the same descriptor again.
FileDescriptorStuck(n) == n

\* FileDescriptor::new: fetch_add(1) on NEXT_ID.
FileDescriptorNext(n) == n + 1

\* The part of VirtualFileSystem::open that finds or creates the entry.
OpenEntry(S, pins, path, mode) ==
    LET Parent(pr) ==
            IF pr.res # "Ok"
            THEN [st |-> pr.st, res |-> pr.res, entry |-> NoEntry]
            ELSE CreateChild(pr.st, pr.entry, pr.name, "File")
        Resolved(r) ==
            IF IsMutating(mode)
            THEN IF r.res = "Ok"
                     THEN IF IsDirectory(r.st, r.entry)
                          THEN [st |-> r.st, res |-> "NotAFile", entry |-> NoEntry]
                          ELSE [st |-> r.st, res |-> "Ok", entry |-> r.entry]
                 ELSE IF r.res # "None"
                     THEN [st |-> r.st, res |-> r.res, entry |-> NoEntry]
                 ELSE Parent(ResolvePathParent(r.st, pins, path))
            ELSE [st |-> r.st,
                  res |-> IF r.res = "None" THEN "EntryNotFound" ELSE r.res,
                  entry |-> r.entry]
    IN  Resolved(ResolvePath(S, pins, path))

\* VirtualFileSystem::open.  `drv` is what the driver's FileOperations::open
\* returns: "Ok" (File::new: cursor 0) or an error.
OpenOp(S, pins, path, mode, drv) ==
    LET Linked(inc, node, fd) ==
            IF FileSystemOf(inc, node) = "none"
                THEN [st |-> inc, res |-> "Panic", val |-> [fd |-> 0, node |-> node]]
            ELSE IF drv # "Ok"
                THEN [st |-> DeferDrop(inc, node, FALSE), res |-> drv,
                      val |-> [fd |-> 0, node |-> node]]
            ELSE [st |-> DeferDrop(
                            [inc EXCEPT
                               !.nextFd = FileDescriptorNext(fd),
                               !.files = Put(@, fd, [node |-> node, mode |-> mode,
                                                     position |-> 0])],
                            node, TRUE),
                  res |-> "Ok", val |-> [fd |-> fd, node |-> node]]
        Node(T, node) == Linked(IncrementLinkCount(T, node), node, T.nextFd)
        Entry(e) ==
            IF e.res # "Ok"
            THEN [st |-> e.st, res |-> e.res, val |-> [fd |-> 0, node |-> NoNode]]
            ELSE Node(e.st, e.st.entries[e.entry].node)
    IN  Entry(OpenEntry(S, pins, path, mode))

\* VirtualFileSystem::get_file
GetFile(S, fd) == IF fd \in DOMAIN S.files THEN "Ok" ELSE "InvalidFile"

\* A remove that leaves the descriptor in the table.
FilesRemoveNothing(S, fd) == S

\* self.files.write().remove(&fd)
FilesRemove(S, fd) == [S EXCEPT !.files = Restrict(@, DOMAIN @ \ {fd})]

\* VirtualFileSystem::close.  `drv` is what the driver's flush returns.
CloseOp(S, fd, drv) ==
    IF GetFile(S, fd) # "Ok" THEN [st |-> S, res |-> "InvalidFile"]
    ELSE IF FileSystemOf(S, S.files[fd].node) = "none"
        THEN [st |-> S, res |-> "Panic"]
    ELSE IF drv # "Ok" THEN [st |-> S, res |-> drv]
    ELSE [st |-> DecrementLinkCount(FilesRemove(S, fd), S.files[fd].node),
          res |-> "Ok"]

-----------------------------------------------------------------------------
(* read and write *)

Zeros(n) == [i \in 1 .. n |-> 0]

\* A read that copies nothing.
RamReadNothing(data, offset, len) == [n |-> 0, bytes |-> << >>]

\* A read that takes the bytes from the start of the file, whatever the offset.
RamReadFromStart(data, offset, len) ==
    [n |-> Min(len, Len(data)), bytes |-> SubSeq(data, 1, Min(len, Len(data)))]

\* RamFileSystem::read on the bytes of the file: the count and the bytes
\* copied to the front of the buffer.
RamRead(data, offset, len) ==
    IF offset > Len(data) THEN [n |-> 0, bytes |-> << >>]
    ELSE LET read_size == Min(len, Len(data) - offset)
         IN  [n |-> read_size, bytes |-> SubSeq(data, offset + 1, offset + read_size)]

\* A write that puts the buffer at the end of the file, whatever the offset.
RamWriteAtEnd(data, offset, buffer) ==
    [data |-> data \o buffer, n |-> Len(buffer)]

\* RamFileSystem::write on the bytes of the file: the new bytes and the count.
RamWrite(data, offset, buffer) ==
    LET min_new_len == offset + Len(buffer)
        resized == IF min_new_len > Len(data)
                   THEN data \o Zeros(min_new_len - Len(data)) ELSE data
    IN  [data |-> [i \in 1 .. Len(resized) |->
                      IF i > offset /\ i <= offset + Len(buffer)
                      THEN buffer[i - offset] ELSE resized[i]],
         n |-> Len(buffer)]

\* A read that takes every node for a RAM file.
DriverReadOfData(S, node, offset, len) ==
    [res |-> "Ok"] @@ RamRead(S.nodes[node].data, offset, len)

\* FileOperations::read of the file system of the node: the RAM file system
\* reads the file, the device directory hands the call to the device (zero
\* fills the buffer, null keeps the trait's default).
DriverRead(S, node, offset, len) ==
    LET nd == S.nodes[node]
    IN  IF FileSystemOf(S, node) = "ramfs"
            THEN [res |-> "Ok"] @@ RamRead(nd.data, offset, len)
        ELSE IF nd.dev = "zero"
            THEN [res |-> "Ok", n |-> len, bytes |-> Zeros(len)]
        ELSE [res |-> "OperationNotSupported", n |-> 0, bytes |-> << >>]

\* FileOperations::write of the file system of the node (null takes the
\* bytes, zero keeps the trait's default).
DriverWrite(S, node, offset, buffer) ==
    LET nd == S.nodes[node]
    IN  IF FileSystemOf(S, node) = "ramfs"
            THEN [res |-> "Ok"] @@ RamWrite(nd.data, offset, buffer)
        ELSE IF nd.dev = "null"
            THEN [res |-> "Ok", n |-> Len(buffer), data |-> nd.data]
        ELSE [res |-> "OperationNotSupported", n |-> 0, data |-> nd.data]

\* VirtualFileSystem::read into a buffer of `len` bytes.
ReadOp(S, fd, len) ==
    LET none == [n |-> 0, bytes |-> << >>]
        Done(d) ==
            IF d.res # "Ok" THEN [st |-> S, res |-> d.res, val |-> none]
            ELSE [st |-> [S EXCEPT !.files[fd].position = @ + d.n],
                  res |-> "Ok", val |-> [n |-> d.n, bytes |-> d.bytes]]
        File(f) ==
            IF S.nodes[f.node].kind = "Directory"
                THEN [st |-> S, res |-> "Panic", val |-> none]
            ELSE IF f.mode # "Read"
                THEN [st |-> S, res |-> "InvalidMode", val |-> none]
            ELSE IF FileSystemOf(S, f.node) = "none"
                THEN [st |-> S, res |-> "Panic", val |-> none]
            ELSE Done(DriverRead(S, f.node, f.position, len))
    IN  IF GetFile(S, fd) # "Ok"
        THEN [st |-> S, res |-> "InvalidFile", val |-> none]
        ELSE File(S.files[fd])

\* VirtualFileSystem::write
WriteOp(S, fd, buffer) ==
    LET Done(d, node) ==
            IF d.res # "Ok" THEN [st |-> S, res |-> d.res, val |-> 0]
            ELSE [st |-> [S EXCEPT !.files[fd].position = @ + d.n,
                                   !.nodes[node].data = d.data],
                  res |-> "Ok", val |-> d.n]
        File(f) ==
            IF S.nodes[f.node].kind = "Directory"
                THEN [st |-> S, res |-> "Panic", val |-> 0]
            ELSE IF f.mode # "Write"
                THEN [st |-> S, res |-> "InvalidMode", val |-> 0]
            ELSE IF FileSystemOf(S, f.node) = "none"
                THEN [st |-> S, res |-> "Panic", val |-> 0]
            ELSE Done(DriverWrite(S, f.node, f.position, buffer), f.node)
    IN  IF GetFile(S, fd) # "Ok"
        THEN [st |-> S, res |-> "InvalidFile", val |-> 0]
        ELSE File(S.files[fd])

-----------------------------------------------------------------------------
(* read_directory *)

\* An insert that keeps the triple a name already has.
CtxInsertKeep(ctx, name, id, kind) ==
    IF name \in DOMAIN ctx THEN ctx
    ELSE [x \in (DOMAIN ctx) \cup {name} |->
             IF x = name THEN [id |-> id, kind |-> kind] ELSE ctx[x]]

\* DirectoryIterationContext::insert: the table is keyed by name, so a later
\* insert of a name replaces the earlier one.
CtxInsert(ctx, name, id, kind) == Put(ctx, name, [id |-> id, kind |-> kind])

\* RamFileSystem::read_directory: one insert for every child of the node.
RamReadDirectory(S, dir) ==
    LET kids == S.nodes[dir].children
    IN  [st |-> S, res |-> "Ok",
         ctx |-> [n \in DOMAIN kids |->
                     [id |-> kids[n][2], kind |-> S.nodes[kids[n]].kind]]]

\* list_char_devices: the registry in the order of its names.
CharDeviceList == <<"null", "zero">>

\* DevFileSystem::read_directory: every registered device, each under a new
\* node id.
DevReadDirectory(S, dir) ==
    LET m == dir[1]
        id == S.mount_table[m].next_node_id
        k == Len(CharDeviceList)
    IN  [st |-> [S EXCEPT !.mount_table[m].next_node_id = id + k],
         res |-> "Ok",
         ctx |-> [n \in Range(CharDeviceList) |->
                    [id |-> id - 1 + CHOOSE i \in 1 .. k : CharDeviceList[i] = n,
                     kind |-> "CharDevice"]]]

\* DirectoryOperations::read_directory of the file system that holds `dir`.
DriverReadDirectory(S, dir) ==
    LET fs == FileSystemOf(S, dir)
    IN  IF fs = "ramfs" THEN RamReadDirectory(S, dir)
        ELSE IF fs = "devfs" THEN DevReadDirectory(S, dir)
        ELSE [st |-> S, res |-> "Panic", ctx |-> EmptyMap]

\* The loop of read_directory over the mount table, in the order of the
\* mount ids: the root of every mount whose parent is `directory` is inserted.
RECURSIVE MergeMounts(_, _, _, _)
MergeMounts(S, ctx, directory, ms) ==
    IF ms = {} THEN ctx
    ELSE
      LET m == CHOOSE x \in ms : \A y \in ms : x <= y
          r == S.entries[S.mount_table[m].root]
          next == IF r.parent # NoEntry
                     /\ S.entries[r.parent].id = S.entries[directory].id
                  THEN CtxInsert(ctx, r.name, r.node[2], S.nodes[r.node].kind)
                  ELSE ctx
      IN  MergeMounts(S, next, directory, ms \ {m})

\* VirtualFileSystem::read_directory
ReadDirectoryOp(S, pins, path) ==
    LET none == [dir |-> NoEntry, ctx |-> EmptyMap]
        Listed(d, dir) ==
            IF d.res # "Ok" THEN [st |-> d.st, res |-> d.res, val |-> none]
            ELSE [st |-> d.st, res |-> "Ok",
                  val |-> [dir |-> dir,
                           ctx |-> MergeMounts(d.st, d.ctx, dir,
                                               DOMAIN d.st.mount_table)]]
        Resolved(r) ==
            IF r.res = "None"
                THEN [st |-> r.st, res |-> "EntryNotFound", val |-> none]
            ELSE IF r.res # "Ok" THEN [st |-> r.st, res |-> r.res, val |-> none]
            ELSE IF ~IsDirectory(r.st, r.entry)
                THEN [st |-> r.st, res |-> "NotADirectory", val |-> none]
            ELSE Listed(DriverReadDirectory(r.st, r.st.entries[r.entry].node),
                        r.entry)
    IN  Resolved(ResolvePath(S, pins, path))

\* VirtualFileSystem::prune_directory_cache
PruneOp(S) == CachePrune(S)

-----------------------------------------------------------------------------
(* The calls as actions.  Every call runs to its end in one step.  A panic   *)
(* stops the kernel: no call follows it.                                     *)

Commit(S) ==
    /\ table' = S.table
    /\ entries' = S.entries
    /\ children' = S.children
    /\ nextEntryId' = S.nextEntryId
    /\ idLog' = S.idLog
    /\ nodes' = S.nodes
    /\ mount_table' = S.mount_table
    /\ nextMountId' = S.nextMountId
    /\ files' = S.files
    /\ nextFd' = S.nextFd
    /\ created' = S.created

\* The state a call leaves is within the bounds of the model.
WithinBounds(S) ==
    /\ Len(S.idLog) <= MaxEntries
    /\ S.nextMountId - FirstMountId <= MaxMounts
    /\ S.nextFd - FirstFd <= MaxFds
    /\ \A m \in DOMAIN S.mount_table :
          S.mount_table[m].next_node_id - FirstNodeId <= MaxNodeId

\* The end of a call: the references the call itself held are dropped.
Finish(r, h) ==
    /\ \E st \in {Release(r.st, DOMAIN h)} : Commit(st)
    /\ held' = h
    /\ panicked' = (r.res = "Panic")

\* The end of a call of a run kept within the bounds.
Return(r, h) == WithinBounds(r.st) /\ Finish(r, h)

\* What the callers of the model pass in.
MountTargets == {<<"/">>, <<"/", "d">>}
MountKinds == FsTypes \cup {"ext2"}
DirectoryPaths == {<<"/", "d">>, <<"/", "d", "d">>}
OpenPaths == {<<"/", "null">>, <<"/", "d", "null">>}
ListedPaths == {<<"/">>, <<"/", "d">>}
Buffers == {<< >>, <<1>>}
DriverResults == {"Ok", "OperationNotSupported"}
Fds == FirstFd .. MaxFds + 1

Mount ==
    /\ ~panicked
    /\ \E target \in MountTargets, kind \in MountKinds :
         \E r \in {MountOp(Cur, Held, target, kind)} :
             Return(r, held)
    /\ UNCHANGED <<closed, harness>>

Stat ==
    /\ ~panicked
    /\ \E path \in Paths, keep \in {FALSE, Cardinality(Held) < MaxHeld} :
         \E r \in {StatOp(Cur, Held, path)} :
             Return(r, IF keep /\ r.res = "Ok" THEN Put(held, r.val, path) ELSE held)
    /\ UNCHANGED <<closed, harness>>

CreateDirectory ==
    /\ ~panicked
    /\ \E path \in DirectoryPaths :
         \E r \in {CreateDirectoryOp(Cur, Held, path)} :
             Return(r, held)
    /\ UNCHANGED <<closed, harness>>

Open ==
    /\ ~panicked
    /\ \E path \in OpenPaths, mode \in Modes, drv \in DriverResults :
         \E r \in {OpenOp(Cur, Held, path, mode, drv)} :
             Return(r, held)
    /\ UNCHANGED <<closed, harness>>

Close ==
    /\ ~panicked
    /\ \E fd \in Fds, drv \in DriverResults :
         \E r \in {CloseOp(Cur, fd, drv)} :
             /\ Return(r, held)
             /\ closed' = IF r.res = "Ok" THEN closed \cup {fd} ELSE closed
    /\ UNCHANGED harness

Read ==
    /\ ~panicked
    /\ \E fd \in Fds, len \in 0 .. MaxBuf :
         \E r \in {ReadOp(Cur, fd, len)} :
             /\ r.res = "Ok" => r.st.files[fd].position <= MaxFileLen
             /\ Return(r, held)
    /\ UNCHANGED <<closed, harness>>

Write ==
    /\ ~panicked
    /\ \E fd \in Fds, buffer \in Buffers :
         \E r \in {WriteOp(Cur, fd, buffer)} :
             /\ r.res = "Ok" => r.st.files[fd].position <= MaxFileLen
             /\ Return(r, held)
    /\ UNCHANGED <<closed, harness>>

ReadDirectory ==
    /\ ~panicked
    /\ \E path \in ListedPaths :
         \E r \in {ReadDirectoryOp(Cur, Held, path)} :
             Return(r, held)
    /\ UNCHANGED <<closed, harness>>

PruneDirectoryCache ==
    /\ ~panicked
    /\ Return([st |-> PruneOp(Cur), res |-> "Ok"], held)
    /\ UNCHANGED <<closed, harness>>

\* A caller drops an entry it held.
DropEntry ==
    /\ ~panicked
    /\ \E o \in Held :
         Return([st |-> Cur, res |-> "Ok"], Restrict(held, Held \ {o}))
    /\ UNCHANGED <<closed, harness>>

\* VirtualFileSystem::new, with the drivers registered.
VfsNew ==
    /\ table = EmptyMap
    /\ entries = EmptyMap
    /\ children = EmptyMap
    /\ nextEntryId = FirstEntryId
    /\ idLog = << >>
    /\ nodes = EmptyMap
    /\ mount_table = EmptyMap
    /\ nextMountId = FirstMountId
    /\ files = EmptyMap
    /\ nextFd = FirstFd
    /\ held = EmptyMap
    /\ closed = {}
    /\ created = EmptyMap
    /\ panicked = FALSE

Init ==
    /\ VfsNew
    /\ harness = [fn |-> "none"]

Next ==
    \/ Mount
    \/ Stat
    \/ CreateDirectory
    \/ Open
    \/ Close
    \/ Read
    \/ Write
    \/ ReadDirectory
    \/ PruneDirectoryCache
    \/ DropEntry

Spec == Init /\ [][Next]_vars

-----------------------------------------------------------------------------
(* The directory cache and the entries *)

\* The key DirectoryCache::insert files an entry under.
KeyOf(o) ==
    DirectoryCacheKey(IF entries[o].parent = NoEntry THEN NullEntryId
                      ELSE entries[entries[o].parent].id,
                      entries[o].name)

\* What the cache answers for the parent and the name of an entry.
LookupOf(o) ==
    IF entries[o].parent = NoEntry THEN CacheGetRoot(Cur)
    ELSE CacheLookup(Cur, entries[o].parent, entries[o].name)

\* C1: every live DirectoryEntry is the entry the cache returns for its
\* parent and its name (get_root for the root entry): exactly one table slot
\* upgrades to it, the slot of its key, and no other live entry has that key.
C1_LiveEntryIsCached ==
    \A o \in DOMAIN entries :
        /\ LookupOf(o) = o
        /\ {k \in DOMAIN table : Upgrade(Cur, table[k]) = o} = {KeyOf(o)}
        /\ \A q \in DOMAIN entries : KeyOf(q) = KeyOf(o) => q = o

\* A caller holds an entry below the root, found again by the cache, after the
\* slot of an entry that died was pruned or taken over.
C1_Witness ==
    /\ ~panicked
    /\ \E o \in Held :
          /\ entries[o].parent # NoEntry
          /\ o \notin MountRoots(Cur)
          /\ CacheLookup(Cur, entries[o].parent, entries[o].name) = o
    /\ Cardinality(DOMAIN table) < Len(idLog)
    /\ \A k \in DOMAIN table : table[k] \in DOMAIN entries

\* C2: as long as a caller holds the entry that a path resolved to, whatever
\* calls were made since (a prune included), resolve_path of that path
\* returns an entry with the same entry_id.
C2_HeldEntryKeepsId ==
    \A o \in Held :
        LET r == ResolvePath(Cur, Held, held[o])
        IN  /\ r.res = "Ok"
            /\ r.st.entries[r.entry].id = entries[o].id

\* A caller holds an entry below a mount root, and other entries were
\* allocated after it.
C2_Witness ==
    /\ ~panicked
    /\ \E o \in Held :
          /\ o \notin MountRoots(Cur)
          /\ Len(held[o]) > 1
          /\ nextEntryId > DirectoryEntryIdNext(entries[o].id)

\* C3: two DirectoryEntry objects that exist at any time have the same
\* entry_id exactly when they are the same object; the ids come from one
\* counter that starts at 1 and only grows, so no id is assigned twice and
\* no entry has the reserved id 0.
C3_EntryIdsUnique ==
    /\ \A a, b \in DOMAIN entries : EntryEq(entries[a], entries[b]) <=> a = b
    /\ \A a, b \in 1 .. Len(idLog) :
          /\ idLog[a] = idLog[b] <=> a = b
          /\ a < b => idLog[a] < idLog[b]
    /\ \A a \in 1 .. Len(idLog) :
          /\ idLog[a] >= FirstEntryId
          /\ idLog[a] # NullEntryId
          /\ idLog[a] < nextEntryId
    /\ \A o \in DOMAIN entries : o <= Len(idLog) /\ entries[o].id = idLog[o]

\* Several entries were allocated, one of them was freed, and two are live.
C3_Witness ==
    /\ Len(idLog) >= 3
    /\ Cardinality(DOMAIN entries) >= 2
    /\ Cardinality(DOMAIN entries) < Len(idLog)

\* The absolute path of an entry: the names from the root down to it.
RECURSIVE PathOf(_)
PathOf(o) ==
    IF entries[o].parent = NoEntry THEN <<entries[o].name>>
    ELSE Append(PathOf(entries[o].parent), entries[o].name)

\* C4: for every record of the mount table, resolve_path of its mount point
\* ("/" for the root mount, else the path of the root's parent followed by
\* the root's name) returns the root entry of that record.
C4_MountPointResolvesToRoot ==
    \A m \in DOMAIN mount_table :
        LET r == ResolvePath(Cur, Held, PathOf(mount_table[m].root))
        IN  r.res = "Ok" /\ r.entry = mount_table[m].root

\* A file system is mounted below the root and no caller holds its root.
C4_Witness ==
    /\ ~panicked
    /\ \E m \in DOMAIN mount_table :
          /\ entries[mount_table[m].root].parent # NoEntry
          /\ mount_table[m].root \notin Held
          /\ Cardinality(DOMAIN table) < Len(idLog)

-----------------------------------------------------------------------------
(* Descriptors and link counts *)

\* The descriptors of the open-file table that refer to a node.
FilesOf(S, node) == {fd \in DOMAIN S.files : S.files[fd].node = node}

\* The link count of a node before a call: its creation value when the call
\* itself created the node.
LinkCountBefore(node) ==
    IF node \in DOMAIN nodes THEN nodes[node].link_count ELSE InitialLinkCount

\* C5: an open that fails after it incremented the link count (the driver's
\* open returns an error) leaves the link count of the node as it was before
\* the call and adds no descriptor; an open that succeeds keeps the
\* increment and adds exactly its descriptor.
C5_OpenRollback ==
    \A path \in OpenPaths, mode \in Modes, drv \in DriverResults :
        LET r == OpenOp(Cur, Held, path, mode, drv)
            node == r.val.node
        IN  (node # NoNode /\ r.res # "Panic") =>
              IF r.res = "Ok"
              THEN /\ drv = "Ok"
                   /\ r.st.nodes[node].link_count = LinkCountBefore(node) + 1
                   /\ r.val.fd \notin DOMAIN files
                   /\ DOMAIN r.st.files = DOMAIN files \cup {r.val.fd}
                   /\ r.st.files[r.val.fd].node = node
              ELSE /\ r.res = drv
                   /\ r.st.nodes[node].link_count = LinkCountBefore(node)
                   /\ r.st.files = files
                   /\ r.st.nextFd = nextFd

\* The driver's open failed in an open that had created the file: the file
\* exists with the link count of its creation and no descriptor was ever
\* issued.
C5_Witness ==
    /\ ~panicked
    /\ nextFd = FirstFd
    /\ \E k \in DOMAIN created :
          /\ nodes[created[k]].kind = "File"
          /\ nodes[created[k]].link_count = InitialLinkCount

\* C6: after any sequence of open and close calls the link count of every
\* node is its creation value plus the number of descriptors of the
\* open-file table that refer to the node.
C6_LinkCountCountsDescriptors ==
    \A n \in DOMAIN nodes :
        nodes[n].link_count = InitialLinkCount + Cardinality(FilesOf(Cur, n))

\* Two descriptors refer to one node.
C6_Witness ==
    /\ ~panicked
    /\ \E n \in DOMAIN nodes :
          /\ Cardinality(FilesOf(Cur, n)) = 2
          /\ nodes[n].link_count = InitialLinkCount + 2

\* C10: once close(fd) has succeeded, close(fd), read(fd, ..) and
\* write(fd, ..) return InvalidFile and change neither the open-file table
\* nor a link count, whatever was opened since: the descriptors come from a
\* counter that only grows, so the value of a closed descriptor is not in
\* the table again.
C10_ClosedDescriptorStaysInvalid ==
    /\ \A fd \in closed \cup DOMAIN files : FirstFd <= fd /\ fd < nextFd
    /\ \A fd \in closed :
          /\ fd \notin DOMAIN files
          /\ \A drv \in DriverResults :
                CloseOp(Cur, fd, drv) = [st |-> Cur, res |-> "InvalidFile"]
          /\ \A len \in 0 .. MaxBuf :
                LET r == ReadOp(Cur, fd, len)
                IN  r.res = "InvalidFile" /\ r.st = Cur
          /\ \A buffer \in Buffers :
                LET r == WriteOp(Cur, fd, buffer)
                IN  r.res = "InvalidFile" /\ r.st = Cur

\* A descriptor was closed and a descriptor opened after it is in the table.
C10_Witness ==
    /\ ~panicked
    /\ \E fd \in closed : \E later \in DOMAIN files : later > fd

-----------------------------------------------------------------------------
(* A file of the RAM file system written and read back: the calls            *)
(* mount("/", ramfs), create_directory of the parent when the path has one,  *)
(* open(path, Write), write(B), close, open(path, Read), read into a buffer  *)
(* of len bytes, one after the other on a new VFS.                           *)

RoundTripInputs ==
    { [fn |-> "roundtrip", pc |-> "mount", path |-> path, B |-> B, len |-> len,
       fd |-> 0, wrote |-> 0, got |-> [n |-> 0, bytes |-> << >>]] :
         path \in OpenPaths, B \in SeqsUpTo(Bytes, MaxData),
         len \in 0 .. MaxData + 1 }

InitRoundTrip ==
    /\ VfsNew
    /\ harness \in {h \in RoundTripInputs : h.len >= Len(h.B)}

\* One call of the sequence: the VFS takes the state the call leaves, and the
\* sequence goes on when the call returned Ok.
RoundTripCall(pc, r, next, h) ==
    /\ harness.fn = "roundtrip"
    /\ harness.pc = pc
    /\ Finish(r, held)
    /\ harness' = IF r.res = "Ok" THEN [h EXCEPT !.pc = next]
                  ELSE [harness EXCEPT !.pc = "failed"]
    /\ UNCHANGED closed

RoundTripMount ==
    /\ harness.pc = "mount"
    /\ \E r \in {MountOp(Cur, Held, <<"/">>, "ramfs")} :
           RoundTripCall("mount", r,
                         IF Len(harness.path) > 2 THEN "create_directory" ELSE "open_w",
                         harness)

RoundTripCreateDirectory ==
    /\ harness.pc = "create_directory"
    /\ \E r \in {CreateDirectoryOp(Cur, Held,
                                    SubSeq(harness.path, 1, Len(harness.path) - 1))} :
           RoundTripCall("create_directory", r, "open_w", harness)

RoundTripOpenWrite ==
    /\ harness.pc = "open_w"
    /\ \E r \in {OpenOp(Cur, Held, harness.path, "Write", "Ok")} :
           RoundTripCall("open_w", r, "write", [harness EXCEPT !.fd = r.val.fd])

RoundTripWrite ==
    /\ harness.pc = "write"
    /\ \E r \in {WriteOp(Cur, harness.fd, harness.B)} :
           RoundTripCall("write", r, "close", [harness EXCEPT !.wrote = r.val])

RoundTripClose ==
    /\ harness.pc = "close"
    /\ \E r \in {CloseOp(Cur, harness.fd, "Ok")} :
           RoundTripCall("close", r, "open_r", harness)

RoundTripOpenRead ==
    /\ harness.pc = "open_r"
    /\ \E r \in {OpenOp(Cur, Held, harness.path, "Read", "Ok")} :
           RoundTripCall("open_r", r, "read", [harness EXCEPT !.fd = r.val.fd])

RoundTripRead ==
    /\ harness.pc = "read"
    /\ \E r \in {ReadOp(Cur, harness.fd, harness.len)} :
           RoundTripCall("read", r, "done", [harness EXCEPT !.got = r.val])

NextRoundTrip ==
    \/ RoundTripMount
    \/ RoundTripCreateDirectory
    \/ RoundTripOpenWrite
    \/ RoundTripWrite
    \/ RoundTripClose
    \/ RoundTripOpenRead
    \/ RoundTripRead

SpecRoundTrip == InitRoundTrip /\ [][NextRoundTrip]_vars

\* C7: on the RAM file system, open(p, Write) of a path that does not exist,
\* write(B), close, open(p, Read) and read into a buffer of at least len(B)
\* bytes all succeed; write returns len(B), read returns len(B), and the
\* bytes read are B.
C7_RamRoundTrip ==
    /\ harness.pc # "failed"
    /\ harness.pc \in {"close", "open_r", "read", "done"} =>
          harness.wrote = Len(harness.B)
    /\ harness.pc = "done" =>
          /\ harness.got.n = Len(harness.B)
          /\ harness.got.bytes = harness.B

\* The sequence ended for a B of the greatest length with a byte that is not
\* 0, read into a buffer longer than B.
C7_Witness ==
    /\ harness.pc = "done"
    /\ Len(harness.B) = MaxData
    /\ \E i \in 1 .. Len(harness.B) : harness.B[i] # 0
    /\ harness.len > Len(harness.B)
    /\ Len(harness.path) > 2

-----------------------------------------------------------------------------
(* RamFileSystem::write applied to a file of any bytes, at any offset, with  *)
(* any buffer.                                                               *)

RamWriteInputs ==
    { [fn |-> "ram_write", pc |-> "call", data |-> data, offset |-> offset,
       buffer |-> buffer, out |-> [data |-> << >>, n |-> 0]] :
         data \in SeqsUpTo(Bytes, MaxData), offset \in 0 .. MaxData + 1,
         buffer \in SeqsUpTo(Bytes, MaxData) }

InitRamWrite ==
    /\ VfsNew
    /\ harness \in RamWriteInputs

RamWriteCall ==
    /\ harness.fn = "ram_write"
    /\ harness.pc = "call"
    /\ harness' = [harness EXCEPT
                      !.pc = "done",
                      !.out = RamWrite(harness.data, harness.offset, harness.buffer)]
    /\ UNCHANGED << table, entries, children, nextEntryId, idLog, nodes,
                    mount_table, nextMountId, files, nextFd, held, closed,
                    created, panicked >>

NextRamWrite == RamWriteCall

SpecRamWrite == InitRamWrite /\ [][NextRamWrite]_vars

\* C8: a write of B at offset k to a RAM file leaves a file of length
\* max(old_len, k + len(B)) whose bytes [k, k + len(B)) are B, whose bytes
\* [old_len, k) are 0 when old_len < k, and whose other bytes are the bytes
\* the file had; the call returns len(B).
C8_RamWrite ==
    harness.pc = "done" =>
        LET old == harness.data
            new == harness.out.data
            k == harness.offset
            B == harness.buffer
        IN  /\ Len(new) = Max(Len(old), k + Len(B))
            /\ \A i \in 1 .. Len(B) : new[k + i] = B[i]
            /\ \A i \in Len(old) + 1 .. k : new[i] = 0
            /\ \A i \in 1 .. Len(old) :
                  (i <= k \/ i > k + Len(B)) => new[i] = old[i]
            /\ harness.out.n = Len(B)

\* A write past the end of a file that has bytes, with a buffer that has
\* bytes: the file gets a hole.
C8_Witness ==
    /\ harness.pc = "done"
    /\ Len(harness.data) > 0
    /\ harness.offset > Len(harness.data)
    /\ Len(harness.buffer) > 0
    /\ \E i \in 1 .. Len(harness.buffer) : harness.buffer[i] # 0

-----------------------------------------------------------------------------
(* read_directory of a directory that has children of its driver and a       *)
(* mount: mount("/", ramfs), open("/null", Write) or not, mount("/d", fs),   *)
(* a create of the RAM driver in the root directory under `name` (the        *)
(* create that mount's missing check of the parent leaves room for, see the  *)
(* FIXME in mount), then read_directory(path).                               *)

ReadDirectoryInputs ==
    { [fn |-> "read_directory", pc |-> "mount", path |-> path, file |-> file,
       fstype |-> fstype, name |-> name, kind |-> kind,
       out |-> [res |-> "", node |-> NoNode, ctx |-> EmptyMap]] :
         path \in ListedPaths, file \in BOOLEAN, fstype \in FsTypes,
         name \in Names, kind \in {"File", "Directory"} }

InitReadDirectory ==
    /\ VfsNew
    /\ harness \in ReadDirectoryInputs

\* One call of the sequence.
ListingCall(pc, r, next, h) ==
    /\ harness.fn = "read_directory"
    /\ harness.pc = pc
    /\ Finish(r, held)
    /\ harness' = IF r.res = "Ok" THEN [h EXCEPT !.pc = next]
                  ELSE [harness EXCEPT !.pc = "failed"]
    /\ UNCHANGED closed

ListingMountRoot ==
    /\ harness.pc = "mount"
    /\ \E r \in {MountOp(Cur, Held, <<"/">>, "ramfs")} :
           ListingCall("mount", r, IF harness.file THEN "open" ELSE "mount_below",
                       harness)

ListingOpen ==
    /\ harness.pc = "open"
    /\ \E r \in {OpenOp(Cur, Held, <<"/", "null">>, "Write", "Ok")} :
           ListingCall("open", r, "mount_below", harness)

ListingMountBelow ==
    /\ harness.pc = "mount_below"
    /\ \E r \in {MountOp(Cur, Held, <<"/", "d">>, harness.fstype)} :
           ListingCall("mount_below", r, "create", harness)

ListingDriverCreate ==
    /\ harness.pc = "create"
    /\ \E dir \in {entries[CacheGetRoot(Cur)].node} :
           \E c \in {DriverCreate(Cur, dir, harness.name, harness.kind)} :
               ListingCall("create",
                           [st |-> [c.st EXCEPT
                                      !.created = Put(@, <<dir, harness.name>>, c.node)],
                            res |-> c.res],
                           "read_directory", harness)

ListingReadDirectory ==
    /\ harness.pc = "read_directory"
    /\ \E r \in {ReadDirectoryOp(Cur, Held, harness.path)} :
           ListingCall("read_directory", r, "done",
                       [harness EXCEPT
                          !.out = [res |-> r.res,
                                   node |-> r.st.entries[r.val.dir].node,
                                   ctx |-> r.val.ctx]])

NextReadDirectory ==
    \/ ListingMountRoot
    \/ ListingOpen
    \/ ListingMountBelow
    \/ ListingDriverCreate
    \/ ListingReadDirectory

SpecReadDirectory == InitReadDirectory /\ [][NextReadDirectory]_vars

\* The mounts whose root has the directory node `dir` as its parent's node.
MountsIn(dir) ==
    {m \in DOMAIN mount_table :
        LET r == entries[mount_table[m].root]
        IN  r.parent # NoEntry /\ entries[r.parent].node = dir}

\* The names of the triples as the caller iterates them.
Triples(ctx) == {<<n, ctx[n].id, ctx[n].kind>> : n \in DOMAIN ctx}

\* C9: read_directory(d) returns at most one triple per name; it returns a
\* triple for every child created in d by the driver's create_file or
\* create_directory and for every mount whose root has d as its parent; the
\* triple of a mount carries the node id and the kind of the mount's root,
\* also when the driver has a child of the same name.
C9_ReadDirectory ==
    /\ harness.pc # "failed"
    /\ harness.pc = "done" =>
          LET ctx == harness.out.ctx
              dir == harness.out.node
          IN  /\ \A s, t \in Triples(ctx) : s[1] = t[1] => s = t
              /\ \A k \in DOMAIN created :
                    k[1] = dir =>
                      /\ k[2] \in DOMAIN ctx
                      /\ (\A m \in MountsIn(dir) :
                             entries[mount_table[m].root].name # k[2])
                           => ctx[k[2]] = [id |-> created[k][2],
                                           kind |-> nodes[created[k]].kind]
              /\ \A m \in MountsIn(dir) :
                    LET r == entries[mount_table[m].root]
                    IN  /\ r.name \in DOMAIN ctx
                        /\ ctx[r.name] = [id |-> r.node[2],
                                          kind |-> nodes[r.node].kind]

\* The directory listed has a mount and a child of its driver under one
\* name, and a second child under another name.
C9_Witness ==
    /\ harness.pc = "done"
    /\ \E m \in MountsIn(harness.out.node) :
          LET r == entries[mount_table[m].root]
              k == <<harness.out.node, r.name>>
          IN  /\ k \in DOMAIN created
              /\ created[k][2] # r.node[2]
              /\ harness.out.ctx[r.name].id = r.node[2]
    /\ Cardinality(DOMAIN harness.out.ctx) = 2

-----------------------------------------------------------------------------
(* A descriptor used against its mode: mount("/", ramfs), then either        *)
(* create_directory("/d") or open("/null", Write), write(<<1>>), close to    *)
(* make the path, open(path, mode), a call that fits the mode or not, and    *)
(* the call that does not fit it: write on Read, read on Write or Append.    *)

ModeInputs ==
    { [fn |-> "mode", pc |-> "mount", path |-> path, mode |-> mode, B |-> B,
       len |-> len, advance |-> advance, fd |-> 0,
       pre |-> [files |-> EmptyMap, nodes |-> EmptyMap], res |-> ""] :
         path \in {<<"/", "null">>, <<"/", "d">>}, mode \in AllModes,
         B \in SeqsUpTo(Bytes, MaxData), len \in 0 .. MaxBuf,
         advance \in BOOLEAN }

InitMode ==
    /\ VfsNew
    /\ harness \in ModeInputs

\* One call of the sequence.
ModeCall(pc, r, next, h) ==
    /\ harness.fn = "mode"
    /\ harness.pc = pc
    /\ Finish(r, held)
    /\ harness' = IF r.res = "Ok" THEN [h EXCEPT !.pc = next]
                  ELSE [harness EXCEPT !.pc = "failed"]
    /\ UNCHANGED closed

ModeMount ==
    /\ harness.pc = "mount"
    /\ \E r \in {MountOp(Cur, Held, <<"/">>, "ramfs")} :
           ModeCall("mount", r,
                    IF harness.path = <<"/", "d">> THEN "create_directory"
                    ELSE "create_file", harness)

ModeCreateDirectory ==
    /\ harness.pc = "create_directory"
    /\ \E r \in {CreateDirectoryOp(Cur, Held, harness.path)} :
           ModeCall("create_directory", r, "open", harness)

ModeCreateFile ==
    /\ harness.pc = "create_file"
    /\ \E r \in {OpenOp(Cur, Held, harness.path, "Write", "Ok")} :
           ModeCall("create_file", r, "fill", [harness EXCEPT !.fd = r.val.fd])

ModeFill ==
    /\ harness.pc = "fill"
    /\ \E r \in {WriteOp(Cur, harness.fd, <<1>>)} :
           ModeCall("fill", r, "close", harness)

ModeClose ==
    /\ harness.pc = "close"
    /\ \E r \in {CloseOp(Cur, harness.fd, "Ok")} :
           ModeCall("close", r, "open", harness)

ModeOpen ==
    /\ harness.pc = "open"
    /\ \E r \in {OpenOp(Cur, Held, harness.path, harness.mode, "Ok")} :
           ModeCall("open", r, IF harness.advance THEN "advance" ELSE "cross",
                    [harness EXCEPT !.fd = r.val.fd])

\* The call that fits the mode moves the cursor.
ModeAdvance ==
    /\ harness.pc = "advance"
    /\ \E r \in {IF harness.mode = "Read"
                 THEN ReadOp(Cur, harness.fd, harness.len)
                 ELSE [WriteOp(Cur, harness.fd, harness.B) EXCEPT
                          !.val = [n |-> @, bytes |-> << >>]]} :
           ModeCall("advance", r, "cross", harness)

\* The call that does not fit the mode.
ModeCross ==
    /\ harness.fn = "mode"
    /\ harness.pc = "cross"
    /\ \E r \in {IF harness.mode = "Read"
                 THEN WriteOp(Cur, harness.fd, harness.B)
                 ELSE [ReadOp(Cur, harness.fd, harness.len) EXCEPT !.val = @.n]} :
           /\ Finish(r, held)
           /\ harness' = [harness EXCEPT
                             !.pc = "done", !.res = r.res,
                             !.pre = [files |-> files, nodes |-> nodes]]
    /\ UNCHANGED closed

NextMode ==
    \/ ModeMount
    \/ ModeCreateDirectory
    \/ ModeCreateFile
    \/ ModeFill
    \/ ModeClose
    \/ ModeOpen
    \/ ModeAdvance
    \/ ModeCross

SpecMode == InitMode /\ [][NextMode]_vars

\* C11: write on a descriptor opened in Read mode, and read on a descriptor
\* opened in Write mode, return InvalidMode, and the cursor of the descriptor
\* and the contents of the file are what they were before the call.
C11_ModeMismatch ==
    harness.pc = "done" =>
        /\ harness.res = "InvalidMode"
        /\ files = harness.pre.files
        /\ nodes = harness.pre.nodes

-----------------------------------------------------------------------------
(* RamFileSystem::read applied to a file of any bytes, at any offset, with   *)
(* a buffer of any length; and the read of the VFS at the cursor that an     *)
(* earlier read left: mount("/", ramfs), open("/null", Write), write(data),  *)
(* close, open("/null", Read), read(len1), read(len).                        *)

ReadAtInputs ==
    { [fn |-> fn, pc |-> IF fn = "ram_read" THEN "call" ELSE "mount",
       data |-> data, offset |-> IF fn = "ram_read" THEN offset ELSE 0,
       len1 |-> IF fn = "ram_read" THEN 0 ELSE offset, len |-> len,
       fd |-> 0, out |-> [n |-> 0, bytes |-> << >>]] :
         fn \in {"ram_read", "read_at"}, data \in SeqsUpTo(Bytes, MaxData),
         offset \in 0 .. MaxData + 1, len \in 0 .. MaxData + 1 }

InitReadAt ==
    /\ VfsNew
    /\ harness \in ReadAtInputs

RamReadCall ==
    /\ harness.fn = "ram_read"
    /\ harness.pc = "call"
    /\ harness' = [harness EXCEPT
                      !.pc = "done",
                      !.out = RamRead(harness.data, harness.offset, harness.len)]
    /\ UNCHANGED << table, entries, children, nextEntryId, idLog, nodes,
                    mount_table, nextMountId, files, nextFd, held, closed,
                    created, panicked >>

\* One call of the sequence.
ReadAtCall(pc, r, next, h) ==
    /\ harness.fn = "read_at"
    /\ harness.pc = pc
    /\ Finish(r, held)
    /\ harness' = IF r.res = "Ok" THEN [h EXCEPT !.pc = next]
                  ELSE [harness EXCEPT !.pc = "failed"]
    /\ UNCHANGED closed

ReadAtMount ==
    /\ harness.pc = "mount"
    /\ \E r \in {MountOp(Cur, Held, <<"/">>, "ramfs")} :
           ReadAtCall("mount", r, "open_w", harness)

ReadAtOpenWrite ==
    /\ harness.pc = "open_w"
    /\ \E r \in {OpenOp(Cur, Held, <<"/", "null">>, "Write", "Ok")} :
           ReadAtCall("open_w", r, "write", [harness EXCEPT !.fd = r.val.fd])

ReadAtWrite ==
    /\ harness.pc = "write"
    /\ \E r \in {WriteOp(Cur, harness.fd, harness.data)} :
           ReadAtCall("write", r, "close", harness)

ReadAtClose ==
    /\ harness.pc = "close"
    /\ \E r \in {CloseOp(Cur, harness.fd, "Ok")} :
           ReadAtCall("close", r, "open_r", harness)

ReadAtOpenRead ==
    /\ harness.pc = "open_r"
    /\ \E r \in {OpenOp(Cur, Held, <<"/", "null">>, "Read", "Ok")} :
           ReadAtCall("open_r", r, "seek", [harness EXCEPT !.fd = r.val.fd])

\* The first read moves the cursor.
ReadAtSeek ==
    /\ harness.pc = "seek"
    /\ \E r \in {ReadOp(Cur, harness.fd, harness.len1)} :
           ReadAtCall("seek", r, "read",
                      [harness EXCEPT !.offset = r.st.files[harness.fd].position])

ReadAtRead ==
    /\ harness.pc = "read"
    /\ \E r \in {ReadOp(Cur, harness.fd, harness.len)} :
           ReadAtCall("read", r, "done", [harness EXCEPT !.out = r.val])

NextReadAt ==
    \/ RamReadCall
    \/ ReadAtMount
    \/ ReadAtOpenWrite
    \/ ReadAtWrite
    \/ ReadAtClose
    \/ ReadAtOpenRead
    \/ ReadAtSeek
    \/ ReadAtRead

SpecReadAt == InitReadAt /\ [][NextReadAt]_vars

\* C12: a read of a RAM file at offset o into a buffer of n bytes returns
\* r = min(n, max(0, len - o)) and copies file[o .. o+r) to the front of the
\* buffer; a read at or past the end of the file returns 0, and through the
\* VFS it leaves the cursor of the descriptor where it was and the file as it
\* was.
C12_RamRead ==
    /\ harness.pc # "failed"
    /\ harness.pc = "done" =>
          LET data == harness.data
              o == harness.offset
              r == Min(harness.len, Max(0, Len(data) - o))
          IN  /\ harness.out.n = r
              /\ harness.out.bytes = SubSeq(data, o + 1, o + r)
              /\ o >= Len(data) => harness.out.n = 0
              /\ harness.fn = "read_at" =>
                    /\ files[harness.fd].position = o + r
                    /\ o >= Len(data) => files[harness.fd].position = o
                    /\ nodes[files[harness.fd].node].data = data

\* A read through the VFS with the cursor at the end of a file that has
\* bytes, into a buffer that has room.
C12_Witness ==
    /\ harness.fn = "read_at"
    /\ harness.pc = "done"
    /\ Len(harness.data) > 0
    /\ harness.offset = Len(harness.data)
    /\ harness.len > 0
    /\ files[harness.fd].position = harness.offset

-----------------------------------------------------------------------------
(* Path::from_str.  A path given to the VFS is a string: a sequence of       *)
(* characters, each a string of one character; NonAscii stands for a         *)
(* character outside ASCII.                                                  *)

MAX_PATH_LENGTH == 4096

NonAscii == "U+00E9"

\* str::is_ascii
IsAscii(s) == \A i \in DOMAIN s : s[i] # NonAscii

\* The String of a slice of characters.
RECURSIVE StringOf(_)
StringOf(cs) ==
    IF cs = << >> THEN ""
    ELSE IF Len(cs) = 1 THEN cs[1]
    ELSE StringOf(SubSeq(cs, 1, Len(cs) \div 2))
            \o StringOf(SubSeq(cs, Len(cs) \div 2 + 1, Len(cs)))

\* s.split("/"): the pieces between the slashes, empty ones included.
Split(s) ==
    LET slashes == {i \in DOMAIN s : s[i] = "/"}
        Cut(k) == IF k = 0 THEN 0
                  ELSE IF k > Cardinality(slashes) THEN Len(s) + 1
                  ELSE CHOOSE i \in slashes :
                          Cardinality({j \in slashes : j < i}) = k - 1
    IN  [k \in 1 .. Cardinality(slashes) + 1 |->
            StringOf(SubSeq(s, Cut(k - 1) + 1, Cut(k) - 1))]

\* A parser that lets a path of any length through.
PathFromStrAnyLength(s) ==
    IF ~IsAscii(s) THEN [res |-> "Panic", segments |-> << >>]
    ELSE IF s = << >> THEN [res |-> "Empty", segments |-> << >>]
    ELSE [res |-> "Ok",
          segments |-> IF Head(s) = "/"
                       THEN <<"/">> \o (IF Tail(s) = << >> THEN << >> ELSE Split(Tail(s)))
                       ELSE Split(s)]

\* impl FromStr for Path.  res is "Panic" at the todo!() for a path that is
\* not ASCII.
PathFromStr(s) ==
    IF ~IsAscii(s) THEN [res |-> "Panic", segments |-> << >>]
    ELSE IF s = << >> THEN [res |-> "Empty", segments |-> << >>]
    ELSE IF Len(s) > MAX_PATH_LENGTH
        THEN [res |-> "MaxLengthExceeded", segments |-> << >>]
    ELSE [res |-> "Ok",
          segments |-> IF Head(s) = "/"
                       THEN <<"/">> \o (IF Tail(s) = << >> THEN << >> ELSE Split(Tail(s)))
                       ELSE Split(s)]

\* Path::is_absolute
IsAbsolute(segments) == segments[1] = "/"

\* The first lines of resolve_path and resolve_path_parent_directory: the
\* parse, whose error becomes InvalidPath, and the todo!() for a path that is
\* not absolute.
ParsePath(s) ==
    LET Parsed(p) ==
            IF p.res = "Panic" THEN [res |-> "Panic", segments |-> << >>]
            ELSE IF p.res # "Ok" THEN [res |-> "InvalidPath", segments |-> << >>]
            ELSE IF ~IsAbsolute(p.segments) THEN [res |-> "Panic", segments |-> << >>]
            ELSE p
    IN  Parsed(PathFromStr(s))

-----------------------------------------------------------------------------
(* The calls of the VFS on a path given as a string.  resolve_path parses    *)
(* the string first, so a call whose string does not parse returns before    *)
(* it reads or changes anything; mount looks for the type of the file        *)
(* system and compares the target with "/" before it resolves it.            *)

\* VirtualFileSystem::resolve_path on a string.
ResolvePathOf(S, pins, s) ==
    LET Parsed(p) ==
            IF p.res # "Ok" THEN [st |-> S, res |-> p.res, entry |-> NoEntry]
            ELSE ResolvePath(S, pins, p.segments)
    IN  Parsed(ParsePath(s))

\* VirtualFileSystem::stat on a string.
StatPath(S, pins, s) ==
    LET Parsed(p) ==
            IF p.res # "Ok" THEN [st |-> S, res |-> p.res, val |-> NoEntry]
            ELSE StatOp(S, pins, p.segments)
    IN  Parsed(ParsePath(s))

\* VirtualFileSystem::create_directory on a string.
CreateDirectoryPath(S, pins, s) ==
    LET Parsed(p) ==
            IF p.res # "Ok" THEN [st |-> S, res |-> p.res, val |-> NoEntry]
            ELSE CreateDirectoryOp(S, pins, p.segments)
    IN  Parsed(ParsePath(s))

\* VirtualFileSystem::open on a string.
OpenPath(S, pins, s, mode, drv) ==
    LET Parsed(p) ==
            IF p.res # "Ok"
            THEN [st |-> S, res |-> p.res, val |-> [fd |-> 0, node |-> NoNode]]
            ELSE OpenOp(S, pins, p.segments, mode, drv)
    IN  Parsed(ParsePath(s))

\* VirtualFileSystem::read_directory on a string.
ReadDirectoryPath(S, pins, s) ==
    LET Parsed(p) ==
            IF p.res # "Ok"
            THEN [st |-> S, res |-> p.res,
                  val |-> [dir |-> NoEntry, ctx |-> EmptyMap]]
            ELSE ReadDirectoryOp(S, pins, p.segments)
    IN  Parsed(ParsePath(s))

\* VirtualFileSystem::mount on a string, with source "" and Some(kind): the
\* type is looked up first, the target "/" is not parsed.
MountPath(S, pins, target, kind) ==
    LET Parsed(p) ==
            IF p.res # "Ok" THEN [st |-> S, res |-> p.res, val |-> NoEntry]
            ELSE MountOp(S, pins, p.segments, kind)
    IN  IF kind \notin FsTypes \/ target = <<"/">>
        THEN MountOp(S, pins, <<"/">>, kind)
        ELSE Parsed(ParsePath(target))

\* The strings the callers of the model pass.
LongestPath == <<"/">> \o [i \in 1 .. MAX_PATH_LENGTH - 1 |-> "d"]
TooLongPath == <<"/">> \o [i \in 1 .. MAX_PATH_LENGTH |-> "d"]
NonAsciiPath == <<"/", NonAscii>>
BadPathStrings == {<< >>, TooLongPath, NonAsciiPath}
DirectoryStrings == {<<"/">>, <<"/", "d">>, <<"/", "d", "/", "d">>}
FileString == <<"/", "n", "u", "l", "l">>
RelativePath == <<"d", "/", "n", "u", "l", "l">>

\* What a string is to the parser.
PathClass(s) ==
    IF s = << >> THEN "empty"
    ELSE IF ~IsAscii(s) THEN "non-ascii"
    ELSE IF Len(s) > MAX_PATH_LENGTH THEN "too long"
    ELSE IF Len(s) = MAX_PATH_LENGTH THEN "longest"
    ELSE IF s[1] # "/" THEN "relative"
    ELSE "other"

PathsInputs ==
    { [fn |-> "paths", pc |-> IF steps = 0 THEN "call" ELSE "mount",
       steps |-> steps, op |-> c[1], s |-> c[2],
       kind |-> c[3], mode |-> c[4], res |-> "", same |-> TRUE] :
         steps \in 0 .. 3,
         c \in ({"stat", "create_directory", "read_directory"}
                    \X (BadPathStrings
                           \cup {LongestPath, RelativePath, <<"/", "d">>})
                    \X {""} \X {""})
               \cup ({"open"}
                    \X (BadPathStrings
                           \cup {LongestPath, RelativePath, FileString})
                    \X {""} \X Modes)
               \cup ({"mount"} \X (BadPathStrings \cup {LongestPath})
                    \X MountKinds \X {""}) }

InitPaths ==
    /\ VfsNew
    /\ harness \in PathsInputs

\* The calls before the call on the string: mount("/", ramfs),
\* create_directory("/d"), open("/null", Write), the first `steps` of them.
PathsSetupCall(pc, n, r, next) ==
    /\ harness.fn = "paths"
    /\ harness.pc = pc
    /\ Finish(r, held)
    /\ harness' = IF r.res # "Ok" THEN [harness EXCEPT !.pc = "failed"]
                  ELSE IF harness.steps = n THEN [harness EXCEPT !.pc = "call"]
                  ELSE [harness EXCEPT !.pc = next]
    /\ UNCHANGED closed

PathsSetupMount ==
    /\ harness.pc = "mount"
    /\ \E r \in {MountOp(Cur, Held, <<"/">>, "ramfs")} :
           PathsSetupCall("mount", 1, r, "create_directory")

PathsSetupCreateDirectory ==
    /\ harness.pc = "create_directory"
    /\ \E r \in {CreateDirectoryOp(Cur, Held, <<"/", "d">>)} :
           PathsSetupCall("create_directory", 2, r, "open")

PathsSetupOpen ==
    /\ harness.pc = "open"
    /\ \E r \in {OpenOp(Cur, Held, <<"/", "null">>, "Write", "Ok")} :
           PathsSetupCall("open", 3, r, "call")

\* The end of the call on the string: the harness keeps what came of it.
PathCall(op, r) ==
    /\ harness.fn = "paths"
    /\ harness.pc = "call"
    /\ harness.op = op
    /\ Finish(r, held)
    /\ harness' = [harness EXCEPT !.pc = "done", !.res = r.res,
                                  !.same = (Release(r.st, Held) = Cur)]
    /\ UNCHANGED closed

PathsMount ==
    /\ harness.op = "mount"
    /\ \E r \in {MountPath(Cur, Held, harness.s, harness.kind)} :
           PathCall("mount", r)

PathsStat ==
    /\ harness.op = "stat"
    /\ \E r \in {StatPath(Cur, Held, harness.s)} :
           PathCall("stat", r)

PathsCreateDirectory ==
    /\ harness.op = "create_directory"
    /\ \E r \in {CreateDirectoryPath(Cur, Held, harness.s)} :
           PathCall("create_directory", r)

PathsOpen ==
    /\ harness.op = "open"
    /\ \E r \in {OpenPath(Cur, Held, harness.s, harness.mode, "Ok")} :
           PathCall("open", r)

PathsReadDirectory ==
    /\ harness.op = "read_directory"
    /\ \E r \in {ReadDirectoryPath(Cur, Held, harness.s)} :
           PathCall("read_directory", r)

NextPaths ==
    \/ PathsSetupMount
    \/ PathsSetupCreateDirectory
    \/ PathsSetupOpen
    \/ PathsMount
    \/ PathsStat
    \/ PathsCreateDirectory
    \/ PathsOpen
    \/ PathsReadDirectory

SpecPaths == InitPaths /\ [][NextPaths]_vars

\* C13 as stated: stat, open, create_directory, read_directory and mount
\* with a target other than "/", given the empty path or a path longer than
\* 4096 bytes, return InvalidPath and leave the VFS as it was; a path of
\* exactly 4096 bytes gets through the parser.
C13_BadPathAnyMount ==
    harness.pc = "done" =>
        /\ PathClass(harness.s) \in {"empty", "too long"} =>
              harness.res = "InvalidPath" /\ harness.same
        /\ PathClass(harness.s) = "longest" =>
              /\ PathFromStr(harness.s).res = "Ok"
              /\ harness.op \in {"stat", "open", "read_directory"} =>
                    harness.res # "InvalidPath"

\* C13: stat, open, create_directory, read_directory, and mount with a
\* target other than "/" and the name of a registered file system type,
\* given the empty path or a path longer than 4096 bytes, return InvalidPath
\* and leave the cache, the mount table, the open-file table and the nodes of
\* the drivers as they were; a path of exactly 4096 bytes gets through the
\* parser.
C13_BadPath ==
    harness.pc = "done" =>
        /\ (/\ PathClass(harness.s) \in {"empty", "too long"}
            /\ harness.op = "mount" => harness.kind \in FsTypes) =>
              harness.res = "InvalidPath" /\ harness.same
        /\ PathClass(harness.s) = "longest" =>
              /\ PathFromStr(harness.s).res = "Ok"
              /\ harness.op \in {"stat", "open", "read_directory"} =>
                    harness.res # "InvalidPath"

\* A mount of a registered type on a path that is too long, on a VFS that has
\* a root, a directory and an open file.
C13_Witness ==
    /\ harness.pc = "done"
    /\ harness.op = "mount"
    /\ harness.kind \in FsTypes
    /\ PathClass(harness.s) = "too long"
    /\ harness.res = "InvalidPath"
    /\ DOMAIN files # {}
    /\ Cardinality(DOMAIN nodes) >= 3

\* C14: a call on a path that has a character outside ASCII returns
\* InvalidPath to its caller and changes no state of the VFS.
C14_NonAsciiPath ==
    (harness.pc = "done" /\ PathClass(harness.s) = "non-ascii") =>
        /\ harness.res = "InvalidPath"
        /\ harness.same
        /\ ~panicked

-----------------------------------------------------------------------------
(* "." and ".." in resolve_path *)

\* The path of the segment `seg` in the directory of path p.
ChildPath(p, seg) ==
    IF p = <<"/">> THEN p \o seg ELSE p \o <<"/">> \o seg

\* resolve_path of s, made while the caller holds the entry that r returned,
\* returns that entry.
ResolvesToEntryOf(r, s) ==
    \A r2 \in {ResolvePathOf(r.st, Held \cup {r.entry}, s)} :
        r2.res = "Ok" /\ r2.entry = r.entry

-----------------------------------------------------------------------------
(* mount at "/" by concurrent callers.  A call is a sequence of steps; the   *)
(* block of lines 283-300 runs under the write guard of directory_cache,     *)
(* taken at line 284 and dropped at the end of the block.                    *)

MaxThreads == 3     \* callers of mount at "/" in SpecMountRoot
Threads == 1 .. MaxThreads
NoThread == 0

\* RwLock::write of directory_cache goes through whatever the lock holds.
CacheWriteLockFreeAlways(lock) == TRUE

\* RwLock::write of directory_cache: the caller spins until no guard is out.
CacheWriteLockFree(lock) == lock = NoThread

InitMountRoot ==
    /\ VfsNew
    /\ harness = [fn |-> "mount_root",
                  pc |-> [t \in Threads |-> "call"],
                  kind |-> [t \in Threads |-> ""],
                  res |-> [t \in Threads |-> ""],
                  id |-> [t \in Threads |-> FirstMountId],
                  root |-> [t \in Threads |-> NoEntry],
                  cache_lock |-> NoThread]

\* A step of thread t that leaves the VFS as S, the thread at pc.
MountRootStep(t, S, h, lock, pc, res) ==
    /\ Finish([st |-> S, res |-> "Ok"], h)
    /\ harness' = [harness EXCEPT !.pc[t] = pc, !.res[t] = res,
                                  !.cache_lock = lock]
    /\ UNCHANGED closed

\* find_file_system_type of the kind passed in.
MountRootFindType(t) ==
    /\ harness.fn = "mount_root" /\ harness.pc[t] = "call"
    /\ \E kind \in MountKinds :
         /\ Finish([st |-> Cur, res |-> "Ok"], held)
         /\ harness' = [harness EXCEPT
                !.kind[t] = kind,
                !.pc[t] = IF kind \in FsTypes THEN "write" ELSE "done",
                !.res[t] = IF kind \in FsTypes THEN "" ELSE "FileSystemTypeNotFound"]
    /\ UNCHANGED closed

\* self.directory_cache.write()
MountRootLock(t) ==
    /\ harness.fn = "mount_root" /\ harness.pc[t] = "write"
    /\ CacheWriteLockFree(harness.cache_lock)
    /\ MountRootStep(t, Cur, held, t, "get_root", "")

\* cache.get_root().is_some(): the early return drops the guard.
MountRootCheck(t) ==
    /\ harness.fn = "mount_root" /\ harness.pc[t] = "get_root"
    /\ IF CacheGetRoot(Cur) # NoEntry
       THEN MountRootStep(t, Cur, held, NoThread, "done", "AlreadyExists")
       ELSE MountRootStep(t, Cur, held, harness.cache_lock, "mount", "")

\* MountId::new and ty.mount.
MountRootDriver(t) ==
    /\ harness.fn = "mount_root" /\ harness.pc[t] = "mount"
    /\ Finish([st |-> NewFileSystem(Cur, nextMountId), res |-> "Ok"], held)
    /\ harness' = [harness EXCEPT !.pc[t] = "insert", !.id[t] = nextMountId]
    /\ UNCHANGED closed

\* cache.insert(None, fs.root_directory(), "/"); the guard is dropped at the
\* end of the block and the caller holds the root entry in its VfsMount.
MountRootInsert(t) ==
    /\ harness.fn = "mount_root" /\ harness.pc[t] = "insert"
    /\ \E ins \in {CacheInsert(Cur, NoEntry, <<harness.id[t], RootNodeId>>, "/")} :
         /\ Finish([st |-> ins.st, res |-> ins.res], Put(held, ins.entry, <<"/">>))
         /\ harness' = [harness EXCEPT !.pc[t] = "record", !.root[t] = ins.entry,
                                       !.cache_lock = NoThread]
    /\ UNCHANGED closed

\* self.mount_table.write().insert(id, Arc::new(mount))
MountRootRecord(t) ==
    /\ harness.fn = "mount_root" /\ harness.pc[t] = "record"
    /\ MountRootStep(t, RecordMount(Cur, harness.id[t], harness.root[t], harness.kind[t]),
                     Restrict(held, Held \ {harness.root[t]}),
                     harness.cache_lock, "done", "Ok")

NextMountRoot ==
    \/ \E t \in Threads : MountRootFindType(t)
    \/ \E t \in Threads : MountRootLock(t)
    \/ \E t \in Threads : MountRootCheck(t)
    \/ \E t \in Threads : MountRootDriver(t)
    \/ \E t \in Threads : MountRootInsert(t)
    \/ \E t \in Threads : MountRootRecord(t)

SpecMountRoot == InitMountRoot /\ [][NextMountRoot]_vars

\* The root entries of the cache: the entries without a parent.
RootEntries == {o \in DOMAIN entries : entries[o].parent = NoEntry}

\* C16: mount at "/" when a root entry exists returns AlreadyExists and
\* leaves the cache and the mount table as they were; of the concurrent calls
\* of mount at "/" at most one gets past the check, and the cache never holds
\* more than one live root entry.
C16_OneRootMount ==
    harness.fn = "mount_root" =>
        /\ Cardinality({t \in Threads :
                          harness.pc[t] \in {"mount", "insert", "record"}
                            \/ harness.res[t] = "Ok"}) <= 1
        /\ Cardinality(RootEntries) <= 1
        /\ Cardinality(DOMAIN mount_table) <= 1
        /\ CacheGetRoot(Cur) # NoEntry =>
              \A kind \in FsTypes :
                  MountOp(Cur, Held, <<"/">>, kind)
                      = [st |-> Cur, res |-> "AlreadyExists", val |-> NoEntry]

C16_Witness ==
    /\ harness.fn = "mount_root"
    /\ \E t, u \in Threads :
          /\ harness.res[t] = "Ok"
          /\ harness.res[u] = "AlreadyExists"
          /\ harness.kind[u] \in FsTypes
    /\ Cardinality(RootEntries) = 1
    /\ DOMAIN mount_table = {FirstMountId}

-----------------------------------------------------------------------------
(* The registries of file system types and of character devices.  A handle   *)
(* is an Arc<dyn ..>: the name its metadata gives and the object it points   *)
(* to.  The two registries are in the fields fs and chr of harness.          *)

MaxObjects == 2     \* driver objects with the same name in SpecRegistry
NoHandle == << >>   \* Option::<Arc<dyn ..>>::None
TypeNames == FsTypes \cup {"ext2"}
Handles(names) == [name : names, obj : 1 .. MaxObjects]

\* BTreeMap::contains_key that never finds the key.
ContainsKeyNever(registry, name) == FALSE

\* BTreeMap::contains_key
ContainsKey(registry, name) == name \in DOMAIN registry

\* register_file_system
RegisterFileSystem(registry, fs) ==
    IF ContainsKey(registry, fs.name)
    THEN [registry |-> registry, res |-> "NameConflict"]
    ELSE [registry |-> Put(registry, fs.name, fs), res |-> "Ok"]

\* find_file_system_type
FindFileSystemType(registry, name) ==
    IF name \in DOMAIN registry THEN registry[name] ELSE NoHandle

\* register_char_device
RegisterCharDevice(registry, c_dev) ==
    IF ContainsKey(registry, c_dev.name)
    THEN [registry |-> registry, res |-> "NameConflict"]
    ELSE [registry |-> Put(registry, c_dev.name, c_dev), res |-> "Ok"]

\* get_char_device
GetCharDevice(registry, name) ==
    IF name \in DOMAIN registry THEN registry[name] ELSE NoHandle

\* The registries before drivers::init; registered_fs and registered_chr
\* record the handles whose registration returned Ok.
InitRegistry ==
    /\ VfsNew
    /\ harness = [fn |-> "registry", fs |-> EmptyMap, chr |-> EmptyMap,
                  registered_fs |-> {}, registered_chr |-> {},
                  call |-> "none", arg |-> NoHandle, res |-> "",
                  pre |-> EmptyMap]

RegistryCall(h) ==
    /\ harness' = h
    /\ UNCHANGED <<table, entries, children, nextEntryId, idLog, nodes,
                   mount_table, nextMountId, files, nextFd, held, closed,
                   created, panicked>>

RegistryRegisterFileSystem ==
    /\ harness.fn = "registry"
    /\ \E fs \in Handles(TypeNames) :
         \E r \in {RegisterFileSystem(harness.fs, fs)} :
             RegistryCall([harness EXCEPT
                 !.fs = r.registry,
                 !.registered_fs = IF r.res = "Ok" THEN @ \cup {fs} ELSE @,
                 !.call = "register_file_system", !.arg = fs, !.res = r.res,
                 !.pre = harness.fs])

RegistryFindFileSystemType ==
    /\ harness.fn = "registry"
    /\ \E name \in TypeNames :
         RegistryCall([harness EXCEPT
             !.call = "find_file_system_type", !.arg = name,
             !.res = FindFileSystemType(harness.fs, name),
             !.pre = harness.fs])

RegistryRegisterCharDevice ==
    /\ harness.fn = "registry"
    /\ \E c_dev \in Handles(CharDevices) :
         \E r \in {RegisterCharDevice(harness.chr, c_dev)} :
             RegistryCall([harness EXCEPT
                 !.chr = r.registry,
                 !.registered_chr = IF r.res = "Ok" THEN @ \cup {c_dev} ELSE @,
                 !.call = "register_char_device", !.arg = c_dev, !.res = r.res,
                 !.pre = harness.chr])

RegistryGetCharDevice ==
    /\ harness.fn = "registry"
    /\ \E name \in CharDevices :
         RegistryCall([harness EXCEPT
             !.call = "get_char_device", !.arg = name,
             !.res = GetCharDevice(harness.chr, name),
             !.pre = harness.chr])

NextRegistry ==
    \/ RegistryRegisterFileSystem
    \/ RegistryFindFileSystemType
    \/ RegistryRegisterCharDevice
    \/ RegistryGetCharDevice

SpecRegistry == InitRegistry /\ [][NextRegistry]_vars

\* C17: in both registries a registration of a name that is bound returns
\* NameConflict and leaves the registry as it was; a handle whose
\* registration returned Ok is what the lookup of its name returns in every
\* later state; the lookup of a name never registered returns none.
C17_Registries ==
    harness.fn = "registry" =>
        /\ (harness.call = "register_file_system"
               /\ harness.arg.name \in DOMAIN harness.pre)
             => harness.res = "NameConflict" /\ harness.fs = harness.pre
        /\ (harness.call = "register_char_device"
               /\ harness.arg.name \in DOMAIN harness.pre)
             => harness.res = "NameConflict" /\ harness.chr = harness.pre
        /\ \A fs \in harness.registered_fs :
              FindFileSystemType(harness.fs, fs.name) = fs
        /\ \A c_dev \in harness.registered_chr :
              GetCharDevice(harness.chr, c_dev.name) = c_dev
        /\ \A name \in TypeNames \ {fs.name : fs \in harness.registered_fs} :
              FindFileSystemType(harness.fs, name) = NoHandle
        /\ \A name \in CharDevices \ {c.name : c \in harness.registered_chr} :
              GetCharDevice(harness.chr, name) = NoHandle
        /\ harness.call = "find_file_system_type"
             => harness.res = FindFileSystemType(harness.fs, harness.arg)
        /\ harness.call = "get_char_device"
             => harness.res = GetCharDevice(harness.chr, harness.arg)

C17_Witness ==
    /\ harness.fn = "registry"
    /\ harness.call = "register_char_device"
    /\ harness.res = "NameConflict"
    /\ harness.arg.name \in DOMAIN harness.chr
    /\ harness.chr[harness.arg.name] # harness.arg
    /\ \E fs \in harness.registered_fs : harness.fs[fs.name] = fs
    /\ DOMAIN harness.fs # TypeNames

-----------------------------------------------------------------------------
(* The locks of the VFS.  Every operation is the sequence of its lock        *)
(* acquisitions, guard drops, driver calls and cache inserts, in the order   *)
(* of the source; the callers of SpecLocks run their operations step by      *)
(* step.  A temporary guard is dropped at the end of its statement, a named  *)
(* guard at the end of its block.                                            *)

MaxCallers == 2     \* concurrent callers in SpecLocks
Callers == 1 .. MaxCallers
Dirs == {"/", "d"}  \* the directories whose child set an operation works on

Acquire(lock, mode, line) == [do |-> "lock", arg |-> lock, mode |-> mode, line |-> line]
DropGuard(lock, line) == [do |-> "unlock", arg |-> lock, mode |-> "", line |-> line]
DriverCall(call, line) == [do |-> "driver", arg |-> call, mode |-> "", line |-> line]
Insert(line) == [do |-> "insert", arg |-> "", mode |-> "", line |-> line]

\* FsNode::file_system and File::file_system: get_mount reads the mount table.
FileSystemSteps(line) ==
    << Acquire("mount_table", "read", line), DropGuard("mount_table", line) >>

\* get_cached_or_lookup of a name that is not in the cache.
GetCachedOrLookupSteps ==
    << Acquire("directory_cache", "read", 91), DropGuard("directory_cache", 93) >>
    \o FileSystemSteps(96)
    \o << DriverCall("lookup", 97),
          Acquire("directory_cache", "write", 104), Insert(105),
          DropGuard("directory_cache", 105) >>

\* resolve_path of a path with a name after the root.
ResolvePathSteps ==
    << Acquire("directory_cache", "read", 129), DropGuard("directory_cache", 129),
       Acquire("mount_table", "read", 167), DropGuard("mount_table", 174) >>
    \o GetCachedOrLookupSteps

\* resolve_path_parent_directory of a path with two names after the root.
ResolvePathParentSteps ==
    << Acquire("directory_cache", "read", 200), DropGuard("directory_cache", 200) >>
    \o GetCachedOrLookupSteps

\* mount with target "/".
MountRootSteps ==
    << Acquire("directory_cache", "write", 284), DriverCall("mount", 291),
       Insert(293), DropGuard("directory_cache", 300),
       Acquire("mount_table", "write", 338), DropGuard("mount_table", 338) >>

\* A mount into a directory that takes the write lock of the cache before
\* the structure lock of the parent.
MountStepsCacheFirst ==
    ResolvePathSteps \o ResolvePathParentSteps
    \o << Acquire("directory_cache", "write", 327),
          Acquire("structure", "mutex", 317), DriverCall("mount", 325),
          Insert(328),
          DropGuard("structure", 335), DropGuard("directory_cache", 335),
          Acquire("mount_table", "write", 338), DropGuard("mount_table", 338) >>

\* mount into a directory.
MountSteps ==
    ResolvePathSteps \o ResolvePathParentSteps
    \o << Acquire("structure", "mutex", 317), DriverCall("mount", 325),
          Acquire("directory_cache", "write", 327), Insert(328),
          DropGuard("directory_cache", 335), DropGuard("structure", 335),
          Acquire("mount_table", "write", 338), DropGuard("mount_table", 338) >>

\* The end of open: the driver's open and the new descriptor.
OpenFileSteps ==
    FileSystemSteps(384)
    \o << DriverCall("open", 385),
          Acquire("files", "write", 388), DropGuard("files", 388) >>

\* open in a mutating mode of a file that does not exist.
OpenCreateSteps ==
    ResolvePathSteps \o ResolvePathParentSteps \o FileSystemSteps(368)
    \o << DriverCall("create_file", 369),
          Acquire("directory_cache", "write", 372), Insert(373),
          DropGuard("directory_cache", 373) >>
    \o OpenFileSteps

\* open of a file that exists.
OpenSteps == ResolvePathSteps \o OpenFileSteps

\* get_file
GetFileSteps == << Acquire("files", "read", 345), DropGuard("files", 348) >>

\* close
CloseSteps ==
    GetFileSteps \o FileSystemSteps(398)
    \o << DriverCall("flush", 399),
          Acquire("files", "write", 401), DropGuard("files", 401) >>

\* read
ReadSteps ==
    GetFileSteps \o FileSystemSteps(420)
    \o << Acquire("position", "mutex", 424), DriverCall("read", 426),
          DropGuard("position", 430) >>

\* write
WriteSteps ==
    GetFileSteps \o FileSystemSteps(447)
    \o << Acquire("position", "mutex", 451), DriverCall("write", 453),
          DropGuard("position", 457) >>

\* read_directory
ReadDirectorySteps ==
    ResolvePathSteps
    \o << Acquire("structure", "mutex", 466) >>
    \o FileSystemSteps(475)
    \o << DriverCall("read_directory", 477),
          Acquire("mount_table", "read", 481), DropGuard("mount_table", 489),
          DropGuard("structure", 492) >>

\* create_directory
CreateDirectorySteps ==
    ResolvePathSteps \o ResolvePathParentSteps
    \o << Acquire("structure", "mutex", 503) >>
    \o FileSystemSteps(505)
    \o << DriverCall("create_directory", 508),
          Acquire("directory_cache", "write", 512), Insert(513),
          DropGuard("directory_cache", 513), DropGuard("structure", 516) >>

\* prune_directory_cache
PruneSteps ==
    << Acquire("directory_cache", "write", 526), DropGuard("directory_cache", 528) >>

Operations ==
    [ mount_root |-> MountRootSteps, mount |-> MountSteps,
      open_create |-> OpenCreateSteps, open |-> OpenSteps,
      close |-> CloseSteps, read |-> ReadSteps, write |-> WriteSteps,
      read_directory |-> ReadDirectorySteps,
      create_directory |-> CreateDirectorySteps,
      stat |-> ResolvePathSteps, prune_directory_cache |-> PruneSteps ]

\* The operations that work on the child set of a directory the caller names.
OnDirectory == {"mount", "open_create", "read_directory", "create_directory"}

\* The driver calls that change the child set of a directory.
ChildSetCalls == {"create_file", "create_directory", "mount"}

Idle == [op |-> "none", dir |-> "", pc |-> 1, held |-> << >>, mutating |-> ""]

InitLocks ==
    /\ VfsNew
    /\ harness = [fn |-> "locks", caller |-> [t \in Callers |-> Idle]]

\* The lock a step names: the structure lock is the one of the directory.
LockOf(c, step) ==
    [lock |-> step.arg, obj |-> IF step.arg = "structure" THEN c.dir ELSE ""]

\* The guards another caller holds on the lock.
GuardsOfOthers(t, l) ==
    {g \in UNION {Range(harness.caller[u].held) : u \in Callers \ {t}} :
        g.lock = l.lock /\ g.obj = l.obj}

\* spin::Mutex::lock, RwLock::read and RwLock::write return when no guard
\* that excludes the new one is out.
CanAcquire(t, l, mode) ==
    /\ \A g \in Range(harness.caller[t].held) : ~(g.lock = l.lock /\ g.obj = l.obj)
    /\ IF mode = "read"
       THEN \A g \in GuardsOfOthers(t, l) : g.mode = "read"
       ELSE GuardsOfOthers(t, l) = {}

StepOf(c) == Operations[c.op][c.pc]

AtStep(t, do) ==
    /\ harness.fn = "locks"
    /\ harness.caller[t].op # "none"
    /\ harness.caller[t].pc <= Len(Operations[harness.caller[t].op])
    /\ StepOf(harness.caller[t]).do = do

LocksStep(t, c) ==
    /\ harness' = [harness EXCEPT !.caller[t] = c]
    /\ UNCHANGED <<table, entries, children, nextEntryId, idLog, nodes,
                   mount_table, nextMountId, files, nextFd, held, closed,
                   created, panicked>>

\* A caller enters an operation of the VFS.
LocksCall(t) ==
    /\ harness.fn = "locks"
    /\ harness.caller[t].op = "none"
    /\ \E op \in DOMAIN Operations :
         \E dir \in IF op \in OnDirectory THEN Dirs ELSE {""} :
             LocksStep(t, [Idle EXCEPT !.op = op, !.dir = dir])

\* A lock is taken; a child-set mutation is over once the step after its
\* cache insert is made.
LocksAcquire(t) ==
    /\ AtStep(t, "lock")
    /\ \E c \in {harness.caller[t]} :
         \E l \in {LockOf(c, StepOf(c))} :
             /\ CanAcquire(t, l, StepOf(c).mode)
             /\ LocksStep(t, [c EXCEPT
                    !.pc = @ + 1,
                    !.held = Append(@, [lock |-> l.lock, obj |-> l.obj,
                                        mode |-> StepOf(c).mode])])

\* A guard is dropped.
LocksDropGuard(t) ==
    /\ AtStep(t, "unlock")
    /\ \E c \in {harness.caller[t]} :
         \E l \in {LockOf(c, StepOf(c))} :
             LocksStep(t, [c EXCEPT
                 !.pc = @ + 1,
                 !.held = SelectSeq(@, LAMBDA g : ~(g.lock = l.lock /\ g.obj = l.obj)),
                 !.mutating = IF c.pc > 1 /\ Operations[c.op][c.pc - 1].do = "insert"
                              THEN "" ELSE @])

\* A call into the driver.
LocksDriverCall(t) ==
    /\ AtStep(t, "driver")
    /\ \E c \in {harness.caller[t]} :
         LocksStep(t, [c EXCEPT
             !.pc = @ + 1,
             !.mutating = IF StepOf(c).arg \in ChildSetCalls /\ c.op \in OnDirectory
                          THEN c.dir ELSE @])

\* DirectoryCache::insert
LocksInsert(t) ==
    /\ AtStep(t, "insert")
    /\ \E c \in {harness.caller[t]} :
         LocksStep(t, [c EXCEPT !.pc = @ + 1])

\* The operation returns.
LocksReturn(t) ==
    /\ harness.fn = "locks"
    /\ harness.caller[t].op # "none"
    /\ harness.caller[t].pc > Len(Operations[harness.caller[t].op])
    /\ LocksStep(t, Idle)

NextLocks ==
    \/ \E t \in Callers : LocksCall(t)
    \/ \E t \in Callers : LocksAcquire(t)
    \/ \E t \in Callers : LocksDropGuard(t)
    \/ \E t \in Callers : LocksDriverCall(t)
    \/ \E t \in Callers : LocksInsert(t)
    \/ \E t \in Callers : LocksReturn(t)

SpecLocks == InitLocks /\ [][NextLocks]_vars

\* The step a caller made last.
LastStep(c) ==
    IF c.op # "none" /\ c.pc > 1 THEN Operations[c.op][c.pc - 1]
    ELSE [do |-> "none", arg |-> "", mode |-> "", line |-> 0]

\* C18: no operation takes a lock that comes earlier in the order mount
\* table, cache, node structure, node metadata, open-file table, cursor
\* while it holds one that comes later: the guards a caller holds, in the
\* order it took them, never go back in the order.
C18_LockOrder ==
    LET order == <<"mount_table", "directory_cache", "structure", "metadata",
                   "files", "position">>
        Rank(lock) == CHOOSE i \in DOMAIN order : order[i] = lock
    IN  harness.fn = "locks" =>
            \A t \in Callers :
                \A i, j \in DOMAIN harness.caller[t].held :
                    i < j => Rank(harness.caller[t].held[i].lock)
                               <= Rank(harness.caller[t].held[j].lock)

\* C19: no driver call is made while the write guard of the directory cache
\* is held.
C19_NoDriverCallUnderCacheWrite ==
    harness.fn = "locks" =>
        \A t \in Callers :
            LastStep(harness.caller[t]).do = "driver" =>
                \A g \in Range(harness.caller[t].held) :
                    ~(g.lock = "directory_cache" /\ g.mode = "write")

\* C20: every operation that changes the child set of a directory holds the
\* structure lock of the directory's node from the driver call until the new
\* entry is in the cache, and no two such changes of one directory overlap.
C20_ChildSetUnderStructureLock ==
    harness.fn = "locks" =>
        /\ \A t \in Callers :
              harness.caller[t].mutating # "" =>
                  \E g \in Range(harness.caller[t].held) :
                      g.lock = "structure" /\ g.obj = harness.caller[t].mutating
        /\ \A t, u \in Callers :
              (t # u /\ harness.caller[t].mutating # "")
                  => harness.caller[t].mutating # harness.caller[u].mutating

-----------------------------------------------------------------------------
(* read and write by concurrent callers.  A call is the steps of lines       *)
(* 409-430 and 434-457: get_file and the mode check, file.position.lock(),   *)
(* the driver's call at the cursor, the advance of the cursor and the drop   *)
(* of the guard at the return.                                               *)

CursorBuffers == {<< >>, <<1>>, <<0, 1>>}

\* Mutex::lock of a cursor that never waits.
PositionLockFreeAlways(owner) == TRUE

\* Mutex::lock of file.position: the caller spins while a guard is out.
PositionLockFree(owner) == owner = NoThread

\* log: per descriptor, the driver calls in the order they were made.
InitCursor ==
    /\ VfsNew
    /\ harness = [fn |-> "cursor", pc |-> "mount", fds |-> << >>,
                  position_lock |-> << >>, log |-> << >>,
                  call |-> [t \in Threads |->
                              [pc |-> "call", i |-> 0, fd |-> 0, op |-> "",
                               buffer |-> << >>, n |-> 0]]]

\* The calls before the callers start: a RAM file opened for writing and for
\* reading.
CursorSetup(pc, r, h) ==
    /\ harness.fn = "cursor" /\ harness.pc = pc
    /\ r.res = "Ok"
    /\ Finish(r, held)
    /\ harness' = h
    /\ UNCHANGED closed

CursorMount ==
    \E r \in {MountOp(Cur, Held, <<"/">>, "ramfs")} :
        CursorSetup("mount", r, [harness EXCEPT !.pc = "open_w"])

CursorOpenWrite ==
    \E r \in {OpenOp(Cur, Held, <<"/", "null">>, "Write", "Ok")} :
        CursorSetup("open_w", r,
                    [harness EXCEPT !.pc = "open_r", !.fds = <<r.val.fd>>])

CursorOpenRead ==
    \E r \in {OpenOp(Cur, Held, <<"/", "null">>, "Read", "Ok")} :
        CursorSetup("open_r", r,
                    [harness EXCEPT
                        !.pc = "run", !.fds = Append(@, r.val.fd),
                        !.position_lock = [i \in 1 .. 2 |-> NoThread],
                        !.log = [i \in 1 .. 2 |-> << >>]])

\* A step of caller t that leaves the VFS as S.
CursorStep(t, S, h) ==
    /\ Finish([st |-> S, res |-> "Ok"], held)
    /\ harness' = h
    /\ UNCHANGED closed

\* get_file, the assertion on the kind and the mode check: write on the
\* descriptor opened for writing, read on the one opened for reading.
CursorGetFile(t) ==
    /\ harness.fn = "cursor" /\ harness.pc = "run"
    /\ harness.call[t].pc = "call"
    /\ \E i \in 1 .. 2, buffer \in CursorBuffers :
         /\ GetFile(Cur, harness.fds[i]) = "Ok"
         /\ CursorStep(t, Cur, [harness EXCEPT !.call[t] =
                [pc |-> "lock", i |-> i, fd |-> harness.fds[i],
                 op |-> IF files[harness.fds[i]].mode = "Write" THEN "write" ELSE "read",
                 buffer |-> buffer, n |-> 0]])

\* file.position.lock()
CursorLock(t) ==
    /\ harness.fn = "cursor" /\ harness.call[t].pc = "lock"
    /\ PositionLockFree(harness.position_lock[harness.call[t].i])
    /\ CursorStep(t, Cur, [harness EXCEPT
            !.position_lock[harness.call[t].i] = t,
            !.call[t].pc = "driver"])

\* fs.file_operations().write(&file, *offset, buffer)
CursorDriverWrite(t) ==
    /\ harness.fn = "cursor" /\ harness.call[t].pc = "driver"
    /\ harness.call[t].op = "write"
    /\ \E c \in {harness.call[t]} :
         \E f \in {files[c.fd]} :
           \E d \in {DriverWrite(Cur, f.node, f.position, c.buffer)} :
             CursorStep(t, [Cur EXCEPT !.nodes[f.node].data = d.data],
                 [harness EXCEPT
                     !.call[t].pc = "advance", !.call[t].n = d.n,
                     !.log[c.i] = Append(@, [offset |-> f.position, n |-> d.n,
                                             bytes |-> c.buffer])])

\* fs.file_operations().read(&file, *offset, buffer)
CursorDriverRead(t) ==
    /\ harness.fn = "cursor" /\ harness.call[t].pc = "driver"
    /\ harness.call[t].op = "read"
    /\ \E c \in {harness.call[t]} :
         \E f \in {files[c.fd]} :
           \E d \in {DriverRead(Cur, f.node, f.position, Len(c.buffer))} :
             CursorStep(t, Cur,
                 [harness EXCEPT
                     !.call[t].pc = "advance", !.call[t].n = d.n,
                     !.log[c.i] = Append(@, [offset |-> f.position, n |-> d.n,
                                             bytes |-> d.bytes])])

\* *offset += n; the guard is dropped when the call returns.
CursorAdvance(t) ==
    /\ harness.fn = "cursor" /\ harness.call[t].pc = "advance"
    /\ \E c \in {harness.call[t]} :
         CursorStep(t, [Cur EXCEPT !.files[c.fd].position = @ + c.n],
             [harness EXCEPT !.call[t].pc = "done",
                             !.position_lock[c.i] = NoThread])

NextCursor ==
    \/ CursorMount
    \/ CursorOpenWrite
    \/ CursorOpenRead
    \/ \E t \in Threads : CursorGetFile(t)
    \/ \E t \in Threads : CursorLock(t)
    \/ \E t \in Threads : CursorDriverWrite(t)
    \/ \E t \in Threads : CursorDriverRead(t)
    \/ \E t \in Threads : CursorAdvance(t)

SpecCursor == InitCursor /\ [][NextCursor]_vars

\* The sum of the counts of the calls of a log.
RECURSIVE Returned(_)
Returned(log) == IF log = << >> THEN 0 ELSE log[1].n + Returned(Tail(log))

\* The bytes of the calls of a log, one after the other.
RECURSIVE Written(_)
Written(log) == IF log = << >> THEN << >> ELSE log[1].bytes \o Written(Tail(log))

\* The callers that hold the cursor of descriptor i.
InCall(i) ==
    {t \in Threads : harness.call[t].pc \in {"driver", "advance"}
                        /\ harness.call[t].i = i}

\* C21: the calls on one descriptor are serialized by its cursor lock: each
\* driver call is made at the cursor the call before it left, no two of them
\* overlap, the cursor is its first value plus the counts returned, and the
\* writes lie one after the other in the file.
C21_CursorSerialized ==
    (harness.fn = "cursor" /\ harness.pc = "run") =>
        \A i \in 1 .. 2 :
            /\ Cardinality(InCall(i)) <= 1
            /\ \A k \in DOMAIN harness.log[i] :
                  harness.log[i][k].offset
                      = Returned(SubSeq(harness.log[i], 1, k - 1))
            /\ InCall(i) = {} =>
                  files[harness.fds[i]].position = Returned(harness.log[i])
            /\ files[harness.fds[i]].mode = "Write" =>
                  nodes[files[harness.fds[i]].node].data = Written(harness.log[i])

C21_Witness ==
    /\ harness.fn = "cursor" /\ harness.pc = "run"
    /\ \A t \in Threads : harness.call[t].pc = "done" /\ harness.call[t].op = "write"
    /\ \A t \in Threads : harness.call[t].n > 0
    /\ \E t, u \in Threads : harness.call[t].n # harness.call[u].n
    /\ files[harness.fds[1]].position = Returned(harness.log[1])
    /\ Len(harness.log[1]) = MaxThreads

-----------------------------------------------------------------------------
(* The identity of the entry of a mount point: the boot sequence of vfs init *)
(* (a RAM file system at "/", a second file system below it, here at "/d"),  *)
(* stat twice with the first result held, the drop of both results, calls of *)
(* other callers, prune_directory_cache, and stat again.  `how` is the way   *)
(* the directory came to be: a mount of a type, or create_directory.         *)

MaxOther == 2       \* calls of other callers before the prune in SpecIdentity

InitIdentity ==
    /\ VfsNew
    /\ harness \in [fn : {"identity"}, pc : {"mount"},
                    how : FsTypes \cup {"create_directory"},
                    other : {0}, res : {""},
                    first : {NullEntryId}, second : {NullEntryId},
                    third : {NullEntryId}]

IdentityCall(pc, r, hold, h) ==
    /\ harness.fn = "identity" /\ harness.pc \in pc
    /\ Finish(r, hold)
    /\ harness' = [h EXCEPT !.res = r.res]
    /\ UNCHANGED closed

\* The id of the entry a call returned.
IdOf(r) == IF r.res = "Ok" THEN r.st.entries[r.val].id ELSE NullEntryId

\* The entry a call returned, held by the caller under its path.
Holding(r, path) == IF r.res = "Ok" THEN Put(held, r.val, path) ELSE held

IdentityMountRoot ==
    \E r \in {MountOp(Cur, Held, <<"/">>, "ramfs")} :
        IdentityCall({"mount"}, r, held, [harness EXCEPT !.pc = "make"])

IdentityMount ==
    /\ harness.how \in FsTypes
    /\ \E r \in {MountOp(Cur, Held, <<"/", "d">>, harness.how)} :
        IdentityCall({"make"}, r, held, [harness EXCEPT !.pc = "stat1"])

IdentityCreateDirectory ==
    /\ harness.how = "create_directory"
    /\ \E r \in {CreateDirectoryOp(Cur, Held, <<"/", "d">>)} :
        IdentityCall({"make"}, r, held, [harness EXCEPT !.pc = "stat1"])

IdentityStatFirst ==
    \E r \in {StatOp(Cur, Held, <<"/", "d">>)} :
        IdentityCall({"stat1"}, r, Holding(r, <<"/", "d">>),
                     [harness EXCEPT !.pc = "stat2", !.first = IdOf(r)])

IdentityStatSecond ==
    \E r \in {StatOp(Cur, Held, <<"/", "d">>)} :
        IdentityCall({"stat2"}, r, Holding(r, <<"/", "d">>),
                     [harness EXCEPT !.pc = "drop", !.second = IdOf(r)])

\* Both results are dropped.
IdentityDrop ==
    /\ harness.fn = "identity"
    /\ IdentityCall({"drop"}, [st |-> Cur, res |-> "Ok"], EmptyMap,
                    [harness EXCEPT !.pc = "other"])

\* Another caller resolves a path and drops the result.
IdentityOtherStat ==
    /\ harness.other < MaxOther
    /\ \E path \in Paths :
         \E r \in {StatOp(Cur, Held, path)} :
             IdentityCall({"stat1", "stat2", "drop", "other"}, r, held,
                          [harness EXCEPT !.other = @ + 1])

IdentityPrune ==
    /\ harness.fn = "identity"
    /\ IdentityCall({"other"}, [st |-> PruneOp(Cur), res |-> "Ok"], held,
                    [harness EXCEPT !.pc = "stat3"])

IdentityStatThird ==
    \E r \in {StatOp(Cur, Held, <<"/", "d">>)} :
        IdentityCall({"stat3"}, r, held,
                     [harness EXCEPT !.pc = "done", !.third = IdOf(r)])

NextIdentity ==
    \/ IdentityMountRoot
    \/ IdentityMount
    \/ IdentityCreateDirectory
    \/ IdentityStatFirst
    \/ IdentityStatSecond
    \/ IdentityDrop
    \/ IdentityOtherStat
    \/ IdentityPrune
    \/ IdentityStatThird

SpecIdentity == InitIdentity /\ [][NextIdentity]_vars

\* C22 as stated: on the mount point, the two stat calls made while the first
\* result is held return entries with the same id, and the stat after the
\* drop of both and the prune returns an entry with another id.
C22_NewIdAfterPrune ==
    (harness.fn = "identity" /\ harness.pc = "done" /\ harness.how = "devfs") =>
        /\ harness.res = "Ok"
        /\ harness.first # NullEntryId
        /\ harness.second = harness.first
        /\ harness.third # harness.first

\* C22: on the mount point, the two stat calls made while the first result is
\* held return entries with the same id, and the stat after the drop of both
\* and the prune returns the entry with that id again: the mount record keeps
\* its root entry.
C22_SameIdAfterPrune ==
    (harness.fn = "identity" /\ harness.pc = "done" /\ harness.how = "devfs") =>
        /\ harness.res = "Ok"
        /\ harness.first # NullEntryId
        /\ harness.second = harness.first
        /\ harness.third = harness.first

C22_Witness ==
    /\ harness.fn = "identity" /\ harness.pc = "done" /\ harness.how = "devfs"
    /\ harness.res = "Ok"
    /\ harness.third = harness.first
    /\ harness.other = MaxOther
    /\ Held = {}
    /\ Cardinality(DOMAIN mount_table) = 2

-----------------------------------------------------------------------------
(* A mount over a directory that exists *)

\* C23: after create_directory of a directory and a mount of a second RAM
\* file system on it, the mount returns a new mount id, a file then created
\* in the directory is a node of the second file system, and read_directory
\* of the parent lists the name with the node id and the kind of the mount
\* root.
C23_MountOverlay ==
    LET dir == <<"/", "d">>
        Listed(l) ==
            /\ l.res = "Ok"
            /\ "d" \in DOMAIN l.val.ctx
            /\ l.val.ctx["d"] = [id |-> RootNodeId, kind |-> "Directory"]
        Created(o, id) ==
            /\ o.res = "Ok"
            /\ o.val.node[1] = id
            /\ o.val.node \in DOMAIN o.st.nodes
            /\ Listed(ReadDirectoryOp(Release(o.st, Held), Held, <<"/">>))
        Mounted(m, id) ==
            /\ m.res = "Ok"
            /\ m.val = id
            /\ id \notin DOMAIN mount_table
            /\ Created(OpenOp(Release(m.st, Held), Held, <<"/", "d", "null">>,
                              "Write", "Ok"), id)
        Made(c) ==
            c.res = "Ok" =>
                Mounted(MountOp(Release(c.st, Held), Held, dir, "ramfs"),
                        c.st.nextMountId)
    IN  (harness.fn = "none" /\ ~panicked) =>
            Made(CreateDirectoryOp(Cur, Held, dir))

-----------------------------------------------------------------------------
(* The character devices behind the device directory: the boot mounts, open  *)
(* of a device in a mode, and one read or write with a buffer.               *)

DeviceInputs ==
    [fn : {"device"}, pc : {"mount"}, dev : CharDevices, mode : Modes,
     buffer : SeqsUpTo(Bytes, MaxData), fd : {0}, res : {""}, n : {0},
     bytes : {<< >>}, pre : {EmptyMap}]

InitDevice ==
    /\ VfsNew
    /\ harness \in DeviceInputs

DeviceCall(pc, r, h) ==
    /\ harness.fn = "device" /\ harness.pc = pc
    /\ Finish(r, held)
    /\ harness' = [h EXCEPT !.res = r.res]
    /\ UNCHANGED closed

DeviceMountRoot ==
    \E r \in {MountOp(Cur, Held, <<"/">>, "ramfs")} :
        DeviceCall("mount", r, [harness EXCEPT !.pc = "mount_dev"])

DeviceMountDev ==
    \E r \in {MountOp(Cur, Held, <<"/", "d">>, "devfs")} :
        DeviceCall("mount_dev", r, [harness EXCEPT !.pc = "open"])

DeviceOpen ==
    \E r \in {OpenOp(Cur, Held, <<"/", "d", harness.dev>>, harness.mode, "Ok")} :
        DeviceCall("open", r,
                   [harness EXCEPT !.pc = "io", !.fd = r.val.fd,
                                   !.pre = r.st.nodes])

DeviceRead ==
    /\ harness.mode = "Read"
    /\ \E r \in {ReadOp(Cur, harness.fd, Len(harness.buffer))} :
        DeviceCall("io", r, [harness EXCEPT !.pc = "done", !.n = r.val.n,
                                            !.bytes = r.val.bytes])

DeviceWrite ==
    /\ harness.mode = "Write"
    /\ \E r \in {WriteOp(Cur, harness.fd, harness.buffer)} :
        DeviceCall("io", r, [harness EXCEPT !.pc = "done", !.n = r.val])

NextDevice ==
    \/ DeviceMountRoot
    \/ DeviceMountDev
    \/ DeviceOpen
    \/ DeviceRead
    \/ DeviceWrite

SpecDevice == InitDevice /\ [][NextDevice]_vars

\* C24: for every buffer length n, read on zero returns n and fills the
\* buffer with n zeros, write of n bytes on null returns n and stores nothing,
\* and read on null and write on zero return OperationNotSupported.
C24_DevicePassthrough ==
    (harness.fn = "device" /\ harness.pc = "done") =>
        /\ (harness.dev = "zero" /\ harness.mode = "Read") =>
              /\ harness.res = "Ok"
              /\ harness.n = Len(harness.buffer)
              /\ harness.bytes = Zeros(Len(harness.buffer))
        /\ (harness.dev = "null" /\ harness.mode = "Write") =>
              /\ harness.res = "Ok"
              /\ harness.n = Len(harness.buffer)
              /\ nodes = harness.pre
        /\ (harness.dev = "null" /\ harness.mode = "Read") =>
              harness.res = "OperationNotSupported"
        /\ (harness.dev = "zero" /\ harness.mode = "Write") =>
              harness.res = "OperationNotSupported"

C24_Witness ==
    /\ harness.fn = "device" /\ harness.pc = "done"
    /\ harness.dev = "zero" /\ harness.mode = "Read"
    /\ harness.n = MaxData
    /\ harness.bytes = Zeros(MaxData)
    /\ 1 \in Range(harness.buffer)
    /\ harness.fd \in DOMAIN files

-----------------------------------------------------------------------------
(* Relative paths *)

\* C25: stat, open, create_directory and read_directory given a path that is
\* not empty and does not begin with "/" return InvalidPath and leave the VFS
\* as it was.
C25_RelativePath ==
    (harness.fn = "paths" /\ harness.pc = "done"
        /\ PathClass(harness.s) = "relative"
        /\ harness.op \in {"stat", "open", "create_directory", "read_directory"})
      => harness.res = "InvalidPath" /\ harness.same

-----------------------------------------------------------------------------
(* The window of mount between lines 300 and 338: the root entry is in the   *)
(* cache, the guard of directory_cache is dropped, the mount is not yet in   *)
(* mount_table.                                                              *)

\* What a caller that resolves s gets while no guard of directory_cache is
\* out: the walk ends without a panic, and the node of the entry it returns
\* has its mount in mount_table.
ResolvesToMounted(S, pins, s) ==
    \E r \in {ResolvePathOf(S, pins, s)} :
        /\ r.res # "Panic"
        /\ (r.res = "Ok" /\ r.entry # NoEntry)
              => r.st.entries[r.entry].node[1] \in DOMAIN r.st.mount_table

\* C26: at every point of a running mount at which another caller can take
\* the guards of resolve_path, each FsNode that caller reaches has its
\* mount_id in the mount table: resolving "/" returns an entry of a recorded
\* mount, and resolving a name below it does not fail the expectation of
\* FsNode::file_system.
C26_MountRecorded ==
    (harness.fn = "mount_root" /\ harness.cache_lock = NoThread) =>
        /\ ResolvesToMounted(Cur, Held, <<"/">>)
        /\ ResolvesToMounted(Cur, Held, <<"/", "d">>)

-----------------------------------------------------------------------------
(* close(fd) of one open descriptor by concurrent callers.  Each statement   *)
(* of close (lines 396-402) is a step: the guards of files are temporaries   *)
(* of get_file and of line 401, and no lock is held from one statement to    *)
(* the next.  A caller keeps its Arc<File> from get_file to the return.      *)

InitClose ==
    /\ VfsNew
    /\ harness = [fn |-> "close", pc |-> "mount", fd |-> 0, node |-> NoNode,
                  links |-> 0, flushes |-> 0,
                  call |-> [t \in Threads |-> [pc |-> "call", res |-> ""]]]

\* A step that leaves the VFS as S.
CloseStep(S, h) ==
    /\ Finish([st |-> S, res |-> "Ok"], held)
    /\ harness' = h
    /\ UNCHANGED closed

\* The calls before the callers start: a RAM file system at "/" and a file
\* created and opened in it.  links is the link count once the file is open.
CloseMount ==
    /\ harness.fn = "close" /\ harness.pc = "mount"
    /\ \E kind \in FsTypes :
         \E r \in {MountOp(Cur, Held, <<"/">>, kind)} :
            r.res = "Ok" /\ CloseStep(r.st, [harness EXCEPT !.pc = "open"])

CloseOpen ==
    /\ harness.fn = "close" /\ harness.pc = "open"
    /\ \E mode \in {"Read", "Write"} :
         \E r \in {OpenOp(Cur, Held, <<"/", "null">>, mode, "Ok")} :
            /\ r.res = "Ok"
            /\ CloseStep(r.st, [harness EXCEPT
                    !.pc = "run", !.fd = r.val.fd, !.node = r.val.node,
                    !.links = r.st.nodes[r.val.node].link_count])

\* let file = self.get_file(fd)?
CloseGetFile(t) ==
    /\ harness.fn = "close" /\ harness.pc = "run"
    /\ harness.call[t].pc = "call"
    /\ CloseStep(Cur, [harness EXCEPT !.call[t] =
            IF GetFile(Cur, harness.fd) = "Ok"
            THEN [pc |-> "flush", res |-> ""]
            ELSE [pc |-> "done", res |-> "InvalidFile"]])

\* file.file_system() and the driver's flush, which returns Ok for both
\* file systems.
CloseFlush(t) ==
    /\ harness.fn = "close" /\ harness.call[t].pc = "flush"
    /\ FileSystemOf(Cur, harness.node) # "none"
    /\ CloseStep(Cur, [harness EXCEPT !.call[t].pc = "remove",
                                      !.flushes = @ + 1])

\* self.files.write().remove(&fd)
CloseRemove(t) ==
    /\ harness.fn = "close" /\ harness.call[t].pc = "remove"
    /\ CloseStep(FilesRemove(Cur, harness.fd),
                 [harness EXCEPT !.call[t].pc = "decrement"])

\* file.node.decrement_link_count() and Ok(())
CloseDecrement(t) ==
    /\ harness.fn = "close" /\ harness.call[t].pc = "decrement"
    /\ CloseStep(DecrementLinkCount(Cur, harness.node),
                 [harness EXCEPT !.call[t] = [pc |-> "done", res |-> "Ok"]])

NextClose ==
    \/ CloseMount
    \/ CloseOpen
    \/ \E t \in Threads : CloseGetFile(t)
    \/ \E t \in Threads : CloseFlush(t)
    \/ \E t \in Threads : CloseRemove(t)
    \/ \E t \in Threads : CloseDecrement(t)

SpecClose == InitClose /\ [][NextClose]_vars

\* C28: when the concurrent calls of close(fd) on one open descriptor have
\* all returned, exactly one returned Ok and the others InvalidFile, the
\* driver's flush ran once, and the link count of the node went down by
\* exactly one (a node of the device file system is gone with its last
\* holder, a node of the RAM file system stays in its directory).
C28_CloseOnce ==
    (harness.fn = "close" /\ \A t \in Threads : harness.call[t].pc = "done") =>
        /\ Cardinality({t \in Threads : harness.call[t].res = "Ok"}) = 1
        /\ \A t \in Threads : harness.call[t].res \in {"Ok", "InvalidFile"}
        /\ harness.flushes = 1
        /\ harness.node \in DOMAIN nodes
              => nodes[harness.node].link_count = harness.links - 1

-----------------------------------------------------------------------------
(* stat, create_directory and open in a writing mode of the path "/d" by     *)
(* concurrent callers.  Every guard of directory_cache and of mount_table    *)
(* is a temporary of one statement, so each statement is a step; the only    *)
(* lock kept across statements is the structure lock of the parent's node,   *)
(* which create_directory takes at line 503 and holds to its return.         *)
(* A caller holds the entries it has got (Arc<DirectoryEntry>) until its     *)
(* call returns.                                                             *)

RaceOps == {"stat", "create_directory", "open"}
RaceIdle == [pc |-> "call", op |-> "", root |-> NoEntry, node |-> NoNode,
             entry |-> NoEntry, res |-> ""]

\* seeded: "d" exists when the callers start; made: the nodes the driver
\* created for the name "d", in order.
InitRace ==
    /\ VfsNew
    /\ harness = [fn |-> "race", pc |-> "mount", structure_lock |-> NoThread,
                  seeded |-> FALSE, made |-> << >>,
                  call |-> [t \in Callers |-> RaceIdle]]

\* The entries the callers hold once the harness is h.
RaceHeld(h) ==
    [o \in {h.call[t].entry : t \in Callers} \ {NoEntry} |-> <<"/", "d">>]

\* A step that leaves the VFS as S and the callers as h.
RaceStep(S, res, h) ==
    /\ ~panicked
    /\ Finish([st |-> S, res |-> res], RaceHeld(h))
    /\ harness' = h
    /\ UNCHANGED closed

\* Before the callers start: a RAM file system at "/", in which "d" either
\* does not exist or is a directory that is no longer in the cache.
RaceMount ==
    /\ harness.fn = "race" /\ harness.pc = "mount"
    /\ \E r \in {MountOp(Cur, Held, <<"/">>, "ramfs")} :
          r.res = "Ok" /\ RaceStep(r.st, "Ok", [harness EXCEPT !.pc = "seed"])

RaceSeed ==
    /\ harness.fn = "race" /\ harness.pc = "seed"
    /\ \/ RaceStep(Cur, "Ok", [harness EXCEPT !.pc = "run"])
       \/ \E r \in {CreateDirectoryOp(Cur, Held, <<"/", "d">>)} :
            /\ r.res = "Ok"
            /\ RaceStep(r.st, "Ok",
                   [harness EXCEPT !.pc = "run", !.seeded = TRUE,
                                   !.made = <<r.st.entries[r.val].node>>])

\* The call and the first statement of resolve_path that takes a guard:
\* self.directory_cache.read().get_root() (line 130).
RaceCall(t) ==
    /\ harness.fn = "race" /\ harness.pc = "run"
    /\ harness.call[t].pc = "call"
    /\ \E op \in RaceOps :
         RaceStep(Cur, "Ok", [harness EXCEPT !.call[t] =
             [RaceIdle EXCEPT !.pc = "lookup", !.op = op,
                              !.root = CacheGetRoot(Cur)]])

\* The loop over mount_table (lines 167-174) and the cache part of
\* get_cached_or_lookup (line 91).
RaceCacheLookup(t) ==
    /\ harness.fn = "race" /\ harness.call[t].pc = "lookup"
    /\ \E c \in {harness.call[t]} :
         \E mnt \in {MountRootAt(Cur, c.root, "d")} :
           \E cached \in {CacheLookup(Cur, c.root, "d")} :
             RaceStep(Cur, "Ok", [harness EXCEPT !.call[t] =
                 IF mnt # NoEntry THEN [c EXCEPT !.pc = "resolved", !.entry = mnt]
                 ELSE IF cached # NoEntry
                     THEN [c EXCEPT !.pc = "resolved", !.entry = cached]
                 ELSE [c EXCEPT !.pc = "driver"]])

\* parent.node.file_system() and the driver's lookup (lines 96-99).
RaceDriverLookup(t) ==
    /\ harness.fn = "race" /\ harness.call[t].pc = "driver"
    /\ \E c \in {harness.call[t]} :
         \E l \in {DriverLookup(Cur, entries[c.root].node, "d")} :
           RaceStep(l.st, l.res, [harness EXCEPT !.call[t] =
               IF l.res # "Ok" THEN [c EXCEPT !.pc = "done", !.res = l.res]
               ELSE IF l.node = NoNode THEN [c EXCEPT !.pc = "resolved"]
               ELSE [c EXCEPT !.pc = "insert", !.node = l.node]])

\* self.directory_cache.write().insert(Some(parent), node, name): line 102
\* after a lookup, lines 371-373 and 511-514 after a creation.
RaceInsert(t) ==
    /\ harness.fn = "race" /\ harness.call[t].pc \in {"insert", "insert_new"}
    /\ \E c \in {harness.call[t]} :
         \E ins \in {CacheInsert(Cur, c.root, c.node, "d")} :
           RaceStep(ins.st, ins.res, [harness EXCEPT !.call[t] =
               IF ins.res # "Ok" THEN [c EXCEPT !.pc = "done", !.res = ins.res]
               ELSE [c EXCEPT !.entry = ins.entry,
                              !.pc = IF c.pc = "insert" THEN "resolved"
                                     ELSE "created"]])

\* What each operation does with the result of resolve_path.
RaceResolved(t) ==
    /\ harness.fn = "race" /\ harness.call[t].pc = "resolved"
    /\ \E c \in {harness.call[t]} :
         RaceStep(Cur, "Ok", [harness EXCEPT !.call[t] =
             IF c.op = "stat"
                 THEN [c EXCEPT !.pc = "done", !.entry = NoEntry,
                        !.res = IF c.entry = NoEntry THEN "EntryNotFound" ELSE "Ok"]
             ELSE IF c.entry = NoEntry THEN [c EXCEPT !.pc = "parent"]
             ELSE IF c.op = "create_directory"
                 THEN [c EXCEPT !.pc = "done", !.entry = NoEntry,
                                !.res = "AlreadyExists"]
             ELSE IF IsDirectory(Cur, c.entry)
                 THEN [c EXCEPT !.pc = "done", !.entry = NoEntry,
                                !.res = "NotAFile"]
             ELSE [c EXCEPT !.pc = "created"]])

\* resolve_path_parent_directory of "/d": get_root (line 200); the last
\* segment is not looked up.
RaceParent(t) ==
    /\ harness.fn = "race" /\ harness.call[t].pc = "parent"
    /\ RaceStep(Cur, "Ok", [harness EXCEPT
            !.call[t].root = CacheGetRoot(Cur),
            !.call[t].pc = IF harness.call[t].op = "create_directory"
                           THEN "structure_lock" ELSE "create"])

\* parent.node.structure_lock.lock() of create_directory (line 503).
RaceStructureLock(t) ==
    /\ harness.fn = "race" /\ harness.call[t].pc = "structure_lock"
    /\ harness.structure_lock = NoThread
    /\ RaceStep(Cur, "Ok", [harness EXCEPT !.structure_lock = t,
                                           !.call[t].pc = "create"])

\* The driver's create_directory (lines 505-508) or create_file (367-368).
RaceCreate(t) ==
    /\ harness.fn = "race" /\ harness.call[t].pc = "create"
    /\ \E c \in {harness.call[t]} :
         \E d \in {DriverCreate(Cur, entries[c.root].node, "d",
                       IF c.op = "open" THEN "File" ELSE "Directory")} :
           RaceStep(d.st, d.res, [harness EXCEPT
               !.made = IF d.res = "Ok" THEN Append(@, d.node) ELSE @,
               !.call[t] = IF d.res # "Ok" THEN [c EXCEPT !.pc = "done", !.res = d.res]
                           ELSE [c EXCEPT !.pc = "insert_new", !.node = d.node]])

\* The end of the call.  create_directory returns the entry and drops its
\* guard of the structure lock; open goes on from line 379: the link count,
\* the driver's open, the new descriptor in files.
RaceReturn(t) ==
    /\ harness.fn = "race" /\ harness.call[t].pc = "created"
    /\ \E c \in {harness.call[t]} :
         \E node \in {entries[c.entry].node} :
           \E h \in {[harness EXCEPT
                        !.call[t] = [c EXCEPT !.pc = "done", !.res = "Ok",
                                              !.entry = NoEntry],
                        !.structure_lock = IF @ = t THEN NoThread ELSE @]} :
             IF c.op = "create_directory" THEN RaceStep(Cur, "Ok", h)
             ELSE RaceStep([IncrementLinkCount(Cur, node) EXCEPT
                               !.nextFd = FileDescriptorNext(@),
                               !.files = Put(@, nextFd,
                                     [node |-> node, mode |-> "Write",
                                      position |-> 0])],
                           "Ok", h)

NextRace ==
    \/ RaceMount
    \/ RaceSeed
    \/ \E t \in Callers : RaceCall(t)
    \/ \E t \in Callers : RaceCacheLookup(t)
    \/ \E t \in Callers : RaceDriverLookup(t)
    \/ \E t \in Callers : RaceInsert(t)
    \/ \E t \in Callers : RaceResolved(t)
    \/ \E t \in Callers : RaceParent(t)
    \/ \E t \in Callers : RaceStructureLock(t)
    \/ \E t \in Callers : RaceCreate(t)
    \/ \E t \in Callers : RaceReturn(t)

SpecRace == InitRace /\ [][NextRace]_vars

\* C27: DirectoryCache.insert is never called for a key whose slot upgrades
\* to a live entry: whenever a caller is about to insert "d" under its
\* parent, the cache's lookup of that key finds nothing.
C27_NoReinsert ==
    harness.fn = "race" =>
        \A t \in Callers :
            harness.call[t].pc \in {"insert", "insert_new"}
                => CacheLookup(Cur, harness.call[t].root, "d") = NoEntry


\* C29: of the concurrent calls of create_directory and of open in a writing
\* mode on one path that does not exist yet, exactly one creates the child
\* and the others observe it: the driver creates at most one node for the
\* name (its child map is never overwritten with a second one), every entry
\* of the cache for the name is bound to that node, no call ends in a panic,
\* and once all have returned exactly one node has been created.
C29_CreateOnce ==
    (harness.fn = "race" /\ ~harness.seeded) =>
        /\ Len(harness.made) <= 1
        /\ \A o \in DOMAIN entries :
              entries[o].name = "d" => entries[o].node = harness.made[1]
        /\ \A t \in Callers : harness.call[t].res # "Panic"
        /\ (\A t \in Callers : /\ harness.call[t].pc = "done"
                               /\ harness.call[t].op \in {"create_directory", "open"})
              => Len(harness.made) = 1

-----------------------------------------------------------------------------
(* prune_directory_cache as a change of the cache alone.                     *)

\* The slots of a table whose weak reference upgrades.
LiveSlots(S) == {k \in DOMAIN S.table : S.table[k] \in DOMAIN S.entries}

\* The names under which the entry o has a child that is alive.
LiveChildren(S, o) ==
    {n \in DOMAIN S.children[o] : S.children[o][n] \in DOMAIN S.entries}

\* C30: prune_directory_cache removes exactly the table slots whose weak
\* reference is dead and, from the children of each live entry, exactly the
\* dead ones; the slots of live entries stay as they are, so the lookups of
\* live entries, the mount table and the open-file table are the same before
\* and after, and the root entry of every mount keeps its slot.
C30_PruneFrame ==
    \E P \in {PruneOp(Cur)} :
        /\ DOMAIN P.table = LiveSlots(Cur)
        /\ \A k \in LiveSlots(Cur) : P.table[k] = table[k]
        /\ P.entries = entries
        /\ \A o \in DOMAIN entries :
              /\ DOMAIN P.children[o] = LiveChildren(Cur, o)
              /\ \A n \in LiveChildren(Cur, o) : P.children[o][n] = children[o][n]
              /\ LookupOf(o) = o
              /\ IF entries[o].parent = NoEntry THEN CacheGetRoot(P) = o
                 ELSE CacheLookup(P, entries[o].parent, entries[o].name) = o
        /\ P.mount_table = mount_table
        /\ P.files = files
        /\ P.nodes = nodes
        /\ \A r \in MountRoots(Cur) :
              r \in DOMAIN P.entries /\ KeyOf(r) \in DOMAIN P.table
                                     /\ P.table[KeyOf(r)] = r

\* A prune that has work to do in both places: a dead slot in the table, and
\* a live entry with a dead child next to a live one, below a mount.
C30_Witness ==
    /\ ~panicked
    /\ mount_table # EmptyMap
    /\ LiveSlots(Cur) # DOMAIN table
    /\ \E o \in DOMAIN entries :
          /\ LiveChildren(Cur, o) # {}
          /\ LiveChildren(Cur, o) # DOMAIN children[o]
    /\ PruneOp(Cur).table # table
    /\ PruneOp(Cur).children # children

-----------------------------------------------------------------------------
(* The parent chain of the live entries.                                     *)

\* Every live entry of S other than a root has a live parent, allocated
\* before it, whose slot in the table upgrades to it; a live entry without a
\* parent is the one get_root returns, under the key (0, "/").
ChainCached(S) ==
    /\ \A o \in DOMAIN S.entries :
          \/ S.entries[o].parent = NoEntry
          \/ S.entries[o].parent \in DOMAIN S.entries /\ S.entries[o].parent < o
    /\ \A o \in DOMAIN S.entries :
          IF S.entries[o].parent = NoEntry
          THEN /\ S.entries[o].name = "/"
               /\ DirectoryCacheKey(NullEntryId, "/") \in DOMAIN S.table
               /\ CacheGetRoot(S) = o
          ELSE \E key \in {DirectoryCacheKey(
                              S.entries[S.entries[o].parent].id, S.entries[o].name)} :
                  key \in DOMAIN S.table /\ Upgrade(S, S.table[key]) = o

MaxChainCalls == 4  \* calls after the directories are made in SpecChain

\* made: the paths created; dropped: the paths of the entries callers dropped.
InitChain ==
    /\ VfsNew
    /\ harness = [fn |-> "chain", pc |-> "mount", calls |-> 0,
                  made |-> {}, dropped |-> {}]

ChainCall(pc, r, hold, h) ==
    /\ harness.fn = "chain" /\ harness.pc = pc
    /\ r.res = "Ok"
    /\ Finish(r, hold)
    /\ harness' = h
    /\ UNCHANGED closed

\* A RAM file system at "/", the directory "/d" and a directory or a file
\* in it.
ChainMount ==
    \E r \in {MountOp(Cur, Held, <<"/">>, "ramfs")} :
        ChainCall("mount", r, held, [harness EXCEPT !.pc = "make"])

ChainCreateDirectory ==
    \E r \in {CreateDirectoryOp(Cur, Held, <<"/", "d">>)} :
        ChainCall("make", r, held,
                  [harness EXCEPT !.pc = "below", !.made = {<<"/", "d">>}])

ChainCreateBelow ==
    \/ \E r \in {CreateDirectoryOp(Cur, Held, <<"/", "d", "d">>)} :
          ChainCall("below", r, held,
                    [harness EXCEPT !.pc = "run",
                                    !.made = @ \cup {<<"/", "d", "d">>}])
    \/ \E r \in {OpenOp(Cur, Held, <<"/", "d", "null">>, "Write", "Ok")} :
          ChainCall("below", r, held,
                    [harness EXCEPT !.pc = "run",
                                    !.made = @ \cup {<<"/", "d", "null">>}])

\* The callers: stat of a path, keeping the entry or not; the drop of an
\* entry a caller holds; a prune.
ChainStat ==
    /\ harness.calls < MaxChainCalls
    /\ \E path \in Paths, keep \in BOOLEAN :
         \E r \in {StatOp(Cur, Held, path)} :
            ChainCall("run", r, IF keep THEN Put(held, r.val, path) ELSE held,
                      [harness EXCEPT !.calls = @ + 1])

ChainDrop ==
    /\ harness.calls < MaxChainCalls
    /\ \E o \in Held :
         ChainCall("run", [st |-> Cur, res |-> "Ok"], Restrict(held, Held \ {o}),
                   [harness EXCEPT !.calls = @ + 1,
                                   !.dropped = @ \cup {held[o]}])

ChainPrune ==
    /\ harness.calls < MaxChainCalls
    /\ ChainCall("run", [st |-> PruneOp(Cur), res |-> "Ok"], held,
                 [harness EXCEPT !.calls = @ + 1])

NextChain ==
    \/ ChainMount
    \/ ChainCreateDirectory
    \/ ChainCreateBelow
    \/ ChainStat
    \/ ChainDrop
    \/ ChainPrune

SpecChain == InitChain /\ [][NextChain]_vars

\* C31: every ancestor on the parent chain of a live entry is live and in
\* the cache, and the chain ends at the entry keyed (0, "/"); this stays so
\* for an entry a caller holds when every other handle is dropped and the
\* cache is pruned.
C31_AncestorsLive ==
    /\ ChainCached(Cur)
    /\ \A o \in Held :
          \E S \in {PruneOp(Release(Cur, {o}))} :
              o \in DOMAIN S.entries /\ ChainCached(S)

\* A caller holds an entry two levels below the root whose parent is held by
\* nobody else and is no mount root, after the handle of the parent was
\* dropped and the cache was pruned.
C31_Witness ==
    /\ harness.fn = "chain" /\ harness.calls >= 3
    /\ \E o \in Held :
          \E p \in {entries[o].parent} :
              /\ p # NoEntry
              /\ entries[p].parent # NoEntry
              /\ p \notin Held
              /\ p \notin MountRoots(Cur)
    /\ Cardinality(DOMAIN table) < Len(idLog)
    /\ \A k \in DOMAIN table : table[k] \in DOMAIN entries


\* The paths that were created and whose entry no strong reference keeps.
Unreferenced == {path \in harness.made :
                    \A o \in DOMAIN entries : PathOf(o) # path}

\* resolve_path of path in S allocates an entry that was not alive in the
\* current state, for the node the driver's lookup gives, with an id above
\* every id assigned so far.
ResolvesAfresh(S, path) ==
    \E r \in {ResolvePath(S, Held, path)} :
        /\ r.res = "Ok"
        /\ r.entry \notin DOMAIN entries
        /\ \E e \in {r.st.entries[r.entry]} :
              /\ \A i \in 1 .. Len(idLog) : e.id > idLog[i]
              /\ e.name = path[Len(path)]
              /\ e.node = DriverLookup(r.st, r.st.entries[e.parent].node,
                                       e.name).node

\* C32: when no strong reference to the entry of a created path is left (the
\* path is not a mount point), the next resolve_path of the path, right away
\* or after a prune, goes to the driver's lookup and returns a new entry
\* whose entry_id is greater than every id assigned before.
C32_FreshAfterDrop ==
    harness.fn = "chain" =>
        \A path \in Unreferenced :
            ResolvesAfresh(Cur, path) /\ ResolvesAfresh(PruneOp(Cur), path)

\* A caller held the entry of a created path and dropped it; nothing keeps
\* it, and its slot is still in the table.
C32_Witness ==
    /\ harness.fn = "chain"
    /\ harness.dropped \cap Unreferenced # {}
    /\ \E k \in DOMAIN table : table[k] \notin DOMAIN entries

-----------------------------------------------------------------------------
(* mount on a target that is taken.                                          *)

\* The parent entry and the name of the root of the mount m.
MountPoint(m) ==
    <<entries[mount_table[m].root].parent, entries[mount_table[m].root].name>>

\* C33: no two records of the mount table have roots with the same parent
\* entry and name, and mount on a target that resolves (to a mount root or
\* to a name of the parent directory) returns AlreadyExists and leaves the
\* VFS as it was.
C33_MountPointTaken ==
    (harness.fn = "none" /\ ~panicked) =>
        /\ \A m, n \in DOMAIN mount_table : MountPoint(m) = MountPoint(n) => m = n
        /\ \A target \in MountTargets, kind \in FsTypes :
              StatOp(Cur, Held, target).res = "Ok" =>
                  \E r \in {MountOp(Cur, Held, target, kind)} :
                      /\ r.res = "AlreadyExists"
                      /\ r.st = StatOp(Cur, Held, target).st

-----------------------------------------------------------------------------
(* resolve_path_parent_directory against resolve_path.                       *)

ParentPaths ==
    Paths \cup { <<"/", "null", "d">>, <<"/", "d", "d", "null">>,
                 <<"/", ".", "d">>, <<"/", "d", "..", "null">> }

\* What resolve_path of the path without its last segment lets
\* resolve_path_parent_directory of the path return.
MirrorsResolvePath(S, pins, p) ==
    \E r \in {ResolvePath(S, pins, SubSeq(p, 1, Len(p) - 1))} :
      \E pr \in {ResolvePathParent(S, pins, p)} :
        IF r.res = "Ok" /\ IsDirectory(r.st, r.entry)
            THEN /\ pr.res = "Ok"
                 /\ pr.entry = r.entry
                 /\ pr.st.entries[pr.entry] = r.st.entries[r.entry]
                 /\ pr.name = p[Len(p)]
        ELSE IF r.res = "Ok" \/ r.res = "NotADirectory"
            THEN pr.res = "NotADirectory"
        ELSE IF r.res = "None" THEN pr.res = "EntryNotFound"
        ELSE pr.res = r.res

\* C34: for a path with a segment after the root, resolve_path_parent
\* returns the directory entry that resolve_path gives for the path without
\* its last segment, and the last segment, also when the leading segments
\* hold ".", ".." or a mount point; it returns EntryNotFound when a leading
\* segment is missing, NotADirectory when one is not a directory, and
\* InvalidPath for "/".
C34_ParentMirrorsResolve ==
    (harness.fn = "none" /\ ~panicked) =>
        \A p \in ParentPaths :
            IF Len(p) = 1
            THEN CacheGetRoot(Cur) # NoEntry
                    => ResolvePathParent(Cur, Held, p).res = "InvalidPath"
            ELSE MirrorsResolvePath(Cur, Held, p)

-----------------------------------------------------------------------------
(* open of a path that does not resolve, and of a directory.                 *)

\* The state after a call that made no change: the entries a resolution
\* allocated on the way, and the nodes the device file system made for
\* them, are in S and die with the call (the device file system takes a
\* new node id for every lookup).
Untouched(S) ==
    \E R \in {Release(S, Held)} :
        /\ R.nodes = nodes
        /\ R.entries = entries
        /\ R.files = files
        /\ R.nextFd = nextFd
        /\ DOMAIN R.mount_table = DOMAIN mount_table
        /\ \A m \in DOMAIN mount_table :
              /\ R.mount_table[m].root = mount_table[m].root
              /\ R.mount_table[m].fstype = mount_table[m].fstype
        /\ R.created = created

\* open in a mutating mode made exactly one node, a file under the name in
\* the directory dir, and stat of the path finds the entry of that node.
CreatedOnce(o, dir, path) ==
    \E name \in {path[Len(path)]} :
      \E new \in {o.val.node} :
        /\ new \notin DOMAIN nodes
        /\ DOMAIN o.st.nodes = DOMAIN nodes \cup {new}
        /\ o.st.nodes[new].kind = "File"
        /\ o.st.nodes[dir].children = Put(nodes[dir].children, name, new)
        /\ \A k \in DOMAIN nodes \ {dir} :
              o.st.nodes[k].children = nodes[k].children
        /\ \E s \in {StatOp(Release(o.st, Held), Held, path)} :
              /\ s.res = "Ok"
              /\ s.st.entries[s.val].node = new
              /\ s.st.entries[s.val].name = name
              /\ ~IsDirectory(s.st, s.val)

\* open of a path in a mode, given what resolve_path (r) and
\* resolve_path_parent_directory (pr) say about the path; creation is looked
\* at when the parent is in a file system of one of the kinds.
OpensOrCreates(path, mode, drv, r, pr, kinds) ==
    \E o \in {OpenOp(Cur, Held, path, mode, drv)} :
        /\ (r.res = "None" /\ mode = "Read")
              => o.res = "EntryNotFound" /\ Untouched(o.st)
        /\ (r.res = "None" /\ mode \in {"Write", "Append"} /\ pr.res = "Ok"
              /\ FileSystemOf(Cur, pr.st.entries[pr.entry].node) \in kinds)
              => /\ o.res = drv
                 /\ CreatedOnce(o, pr.st.entries[pr.entry].node, path)
        /\ (r.res = "None" /\ mode \in {"Write", "Append"} /\ pr.res = "Ok"
              /\ FileSystemOf(Cur, pr.st.entries[pr.entry].node) \notin kinds)
              => o.res = "OperationNotSupported" /\ Untouched(o.st)
        /\ (r.res = "Ok" /\ mode \in {"Write", "Append"}
              /\ IsDirectory(r.st, r.entry))
              => o.res = "NotAFile" /\ Untouched(o.st)

-----------------------------------------------------------------------------
(* create_directory of a path that resolves, and of one that does not.       *)

\* The directory was made: the caller holds the entry returned, stat of the
\* path returns that entry, a directory, and read_directory of the parent
\* lists the name.
MadeDirectory(c, path) ==
    \E pins \in {Held \cup {c.val}} :
      \E S \in {Release(c.st, pins)} :
        /\ c.val \in DOMAIN S.entries
        /\ \E s \in {StatOp(S, pins, path)} :
              /\ s.res = "Ok"
              /\ s.val = c.val
              /\ s.st.entries[s.val] = S.entries[c.val]
              /\ IsDirectory(s.st, s.val)
        /\ \E l \in {ReadDirectoryOp(S, pins, SubSeq(path, 1, Len(path) - 1))} :
              /\ l.res = "Ok"
              /\ path[Len(path)] \in DOMAIN l.val.ctx
              /\ l.val.ctx[path[Len(path)]].kind = "Directory"

\* create_directory of a path, given what resolve_path (r) and
\* resolve_path_parent_directory (pr) say about the path; creation is looked
\* at when the parent is in a file system of one of the kinds.
CreatesDirectory(path, r, pr, kinds) ==
    \E c \in {CreateDirectoryOp(Cur, Held, path)} :
        /\ r.res = "Ok" => c.res = "AlreadyExists" /\ Untouched(c.st)
        /\ (r.res = "None" /\ pr.res = "Ok"
              /\ FileSystemOf(Cur, pr.st.entries[pr.entry].node) \in kinds)
              => c.res = "Ok" /\ MadeDirectory(c, path)
        /\ (r.res = "None" /\ pr.res = "Ok"
              /\ FileSystemOf(Cur, pr.st.entries[pr.entry].node) \notin kinds)
              => c.res = "OperationNotSupported" /\ Untouched(c.st)

-----------------------------------------------------------------------------
(* resolve_path past a file and to a missing name.                           *)

ResolvePaths ==
    Paths \cup { <<"/", "null", "d">>, <<"/", "null", ".">>,
                 <<"/", "null", "..">>, <<"/", "d", "null", "..">>,
                 <<"/", "d", "null", "d">> }

\* The kind of the node of the entry a resolution returned.
KindOf(r) == r.st.nodes[r.st.entries[r.entry].node].kind

\* The name is found neither as the root of a mount below the entry, nor in
\* the cache, nor by the driver's lookup.
Missing(S, dir, name) ==
    /\ name \notin {".", ".."}
    /\ MountRootAt(S, dir, name) = NoEntry
    /\ CacheLookup(S, dir, name) = NoEntry
    /\ DriverLookup(S, S.entries[dir].node, name).node = NoNode

\* resolve_path of p, given the resolutions of the proper prefixes of p and
\* the resolution f of p without its last segment.
ResolvesOrStops(p, f) ==
    \E r \in {ResolvePath(Cur, Held, p)} :
        /\ (\E i \in 1 .. Len(p) - 1 :
              \E pre \in {ResolvePath(Cur, Held, SubSeq(p, 1, i))} :
                  pre.res = "Ok" /\ KindOf(pre) # "Directory")
              => r.res = "NotADirectory"
        /\ (f.res = "Ok" /\ KindOf(f) = "Directory"
              /\ Missing(f.st, f.entry, p[Len(p)]))
              => /\ r.res = "None" /\ r.entry = NoEntry
                 /\ r.st.idLog = f.st.idLog
                 /\ DOMAIN r.st.table = DOMAIN f.st.table
                 /\ \A o \in DOMAIN r.st.entries : r.st.entries[o].name # p[Len(p)]
                        \/ r.st.entries[o].parent # f.entry

\* C37: resolve_path returns NotADirectory whenever a segment, a name, "."
\* or "..", follows a segment that resolved to an entry that is no
\* directory; it returns None when a name is found neither as a mount root,
\* nor in the cache, nor by the driver's lookup, and then the cache gets no
\* entry for that name.
C37_NotADirectoryOrNone ==
    (harness.fn = "none" /\ ~panicked /\ CacheGetRoot(Cur) # NoEntry) =>
        \A p \in ResolvePaths :
            Len(p) > 1 =>
                ResolvesOrStops(p, ResolvePath(Cur, Held, SubSeq(p, 1, Len(p) - 1)))

\* A caller holds the entry of a file that stat returned, and a name of the
\* root directory is missing.
C37_Witness ==
    /\ harness.fn = "none" /\ ~panicked
    /\ \E o \in Held : nodes[entries[o].node].kind = "File"
    /\ CacheGetRoot(Cur) # NoEntry
    /\ \E name \in {"d", "null"} : Missing(Cur, CacheGetRoot(Cur), name)

-----------------------------------------------------------------------------
(* The open-file table and the kinds and modes of its files.                 *)

\* C38: no File of the open-file table refers to a node of kind Directory:
\* open returns no descriptor for a directory in any mode, so the assertions
\* at the start of read and write hold in every reachable state.
C38_NoDirectoryFile ==
    harness.fn = "mode" =>
        /\ ~panicked
        /\ \A fd \in DOMAIN files :
              files[fd].node \in DOMAIN nodes
                  => nodes[files[fd].node].kind # "Directory"

\* C39: write on a descriptor opened in Write or Append mode does not return
\* InvalidMode; write returns InvalidMode only on descriptors opened in Read
\* mode.
C39_WriteOnMutating ==
    (harness.fn = "mode" /\ ~panicked) =>
        \A fd \in DOMAIN files :
            \E r \in {WriteOp(Cur, fd, <<1>>)} :
                /\ files[fd].mode \in {"Write", "Append"} => r.res # "InvalidMode"
                /\ r.res = "InvalidMode" => files[fd].mode = "Read"

-----------------------------------------------------------------------------
(* Progress of concurrent callers.  Each caller makes up to MaxLockCalls     *)
(* calls, step by step as in SpecLocks.  A caller that spins on a lock tries *)
(* again for as long as it runs: under a fair scheduler it makes its next    *)
(* step if that step stays possible.                                         *)

MaxLockCalls == 2   \* calls of one caller in SpecLocksFair

\* The caller spins: it is at an acquisition and a guard that excludes its
\* own is out.
Spinning(t) ==
    /\ AtStep(t, "lock")
    /\ \E c \in {harness.caller[t]} :
          ~CanAcquire(t, LockOf(c, StepOf(c)), StepOf(c).mode)

\* The caller is at the acquisition of a lock it holds itself.
SpinningOnItself(t) ==
    /\ AtStep(t, "lock")
    /\ \E c \in {harness.caller[t]} :
         \E l \in {LockOf(c, StepOf(c))} :
             \E g \in Range(c.held) : g.lock = l.lock /\ g.obj = l.obj

InitLocksFair ==
    /\ VfsNew
    /\ harness = [fn |-> "locks", caller |-> [t \in Callers |-> Idle],
                  calls |-> [t \in Callers |-> 0]]

\* A caller enters an operation of the VFS; its calls are counted.
LocksCallCounted(t) ==
    /\ harness.fn = "locks"
    /\ harness.caller[t].op = "none"
    /\ harness.calls[t] < MaxLockCalls
    /\ \E op \in DOMAIN Operations :
         \E dir \in IF op \in OnDirectory THEN Dirs ELSE {""} :
             harness' = [harness EXCEPT
                            !.caller[t] = [Idle EXCEPT !.op = op, !.dir = dir],
                            !.calls[t] = @ + 1]
    /\ UNCHANGED <<table, entries, children, nextEntryId, idLog, nodes,
                   mount_table, nextMountId, files, nextFd, held, closed,
                   created, panicked>>

\* The next step of a caller that is in a call.
LocksRun(t) ==
    \/ LocksAcquire(t)
    \/ LocksDropGuard(t)
    \/ LocksDriverCall(t)
    \/ LocksInsert(t)
    \/ LocksReturn(t)

NextLocksFair ==
    \/ \E t \in Callers : LocksCallCounted(t)
    \/ \E t \in Callers : LocksRun(t)

SpecLocksFair ==
    /\ InitLocksFair
    /\ [][NextLocksFair]_vars
    /\ \A t \in Callers : WF_vars(LocksRun(t))

=============================================================================
